---- MODULE Spec2Model ----
(***************************************************************************)
(* Wire-format codec of the ATEM switcher protocol: the command encoders   *)
(* of AtemCommands.py and the field decoders of AtemStatuses.py.           *)
(*                                                                         *)
(* Python values are modelled as follows.  An int is an integer; a bool is *)
(* the integer 1 or 0 (bool is a subclass of int, True == 1); bytes and    *)
(* str are sequences of byte values / code points; None is the empty       *)
(* tuple and a supplied optional argument v is the one-element tuple <<v>>.*)
(* A float x that is multiplied by a scale and truncated is carried as the *)
(* integer numerator of x over the fixed denominator SubUnit*scale.        *)
(***************************************************************************)
EXTENDS Integers, Sequences, FiniteSets, TLC

VARIABLES pc, obj, ctor, ret, first, calls, wire, fld, thr, inbox

vars == <<pc, obj, ctor, ret, first, calls, wire, fld, thr, inbox>>

-----------------------------------------------------------------------------
(* Python values *)

None == <<>>
Some(v) == <<v>>
IsNone(x) == x = <<>>
Val(x) == x[1]
\* `x or 0`
OrZero(x) == IF IsNone(x) THEN 0 ELSE Val(x)
\* `d if x is None else x`
Default(x, d) == IF IsNone(x) THEN d ELSE Val(x)

\* what a call returns: bytes, an object that is not bytes, or an exception
Bytes(b) == [kind |-> "bytes", exc |-> "", val |-> b]
Raise(e) == [kind |-> "raise", exc |-> e, val |-> <<>>]
Object(e) == [kind |-> "object", exc |-> e, val |-> <<>>]
NotCalled == [kind |-> "none", exc |-> "", val |-> <<>>]

\* n zero bytes, none for n <= 0
Zeros(n) == [k \in 1..n |-> 0]

RECURSIVE Join(_)
\* the sequences of entries one after the other
Join(entries) ==
    IF entries = <<>> THEN <<>> ELSE Head(entries) \o Join(Tail(entries))

RECURSIVE Pow2(_)
Pow2(n) == IF n = 0 THEN 1 ELSE 2 * Pow2(n - 1)

\* bit k of the non-negative integer m
BitSet(m, k) == (m \div Pow2(k)) % 2 = 1

\* int(): truncation towards zero of the rational n/d, d > 0
Trunc(n, d) == IF n >= 0 THEN n \div d ELSE -((-n) \div d)

-----------------------------------------------------------------------------
(* struct.pack, big-endian ('>' or '!'), no alignment.  An item is a record *)
(* [ok, b]: ok is FALSE where struct.pack raises struct.error.             *)

\* the n low-order bytes of v in two's complement (\div floors, % is >= 0)
RECURSIVE BigEndian(_, _)
BigEndian(v, n) == IF n = 0 THEN <<>> ELSE BigEndian(v \div 256, n - 1) \o <<v % 256>>

pack_B(v) == [ok |-> v >= 0 /\ v <= 255, b |-> BigEndian(v, 1)]
pack_b(v) == [ok |-> v >= -128 /\ v <= 127, b |-> BigEndian(v, 1)]
pack_H(v) == [ok |-> v >= 0 /\ v <= 65535, b |-> BigEndian(v, 2)]
pack_h(v) == [ok |-> v >= -32768 /\ v <= 32767, b |-> BigEndian(v, 2)]
\* the values of the model stay below 2^31, inside the range of 'i' and 'q'
\* and below the upper limit of 'I'
pack_I(v) == [ok |-> v >= 0, b |-> BigEndian(v, 4)]
pack_i(v) == [ok |-> TRUE, b |-> BigEndian(v, 4)]
pack_q(v) == [ok |-> TRUE, b |-> BigEndian(v, 8)]
\* '?': the truth value of the argument
pack_bool(v) == [ok |-> TRUE, b |-> <<IF v # 0 THEN 1 ELSE 0>>]
\* 'x' pad bytes
pack_x(n) == [ok |-> TRUE, b |-> Zeros(n)]
\* 'ns': truncated or zero-padded to n bytes
pack_s(n, s) ==
    [ok |-> TRUE,
     b  |-> IF Len(s) >= n THEN SubSeq(s, 1, n) ELSE s \o Zeros(n - Len(s))]

RECURSIVE Concat(_)
Concat(items) ==
    IF Len(items) = 0 THEN <<>> ELSE Head(items).b \o Concat(Tail(items))

struct_pack(items) ==
    [ok |-> \A k \in DOMAIN items : items[k].ok,
     b  |-> Concat(items)]

\* str.encode(): UTF-8 of a sequence of code points below 2048
RECURSIVE str_encode(_)
str_encode(s) ==
    IF Len(s) = 0 THEN <<>>
    ELSE (IF Head(s) < 128 THEN <<Head(s)>>
          ELSE <<192 + (Head(s) \div 64), 128 + (Head(s) % 64)>>)
         \o str_encode(Tail(s))

-----------------------------------------------------------------------------
(* struct.unpack *)

RECURSIVE FromBigEndian(_)
FromBigEndian(b) ==
    IF Len(b) = 0 THEN 0
    ELSE FromBigEndian(SubSeq(b, 1, Len(b) - 1)) * 256 + b[Len(b)]

\* unsigned / signed integer of n bytes at 0-based offset off
Unsigned(b, off, n) == FromBigEndian(SubSeq(b, off + 1, off + n))
Signed(b, off, n) ==
    LET top == b[off + 1]
        rest == SubSeq(b, off + 2, off + n)
    IN FromBigEndian(<<IF top >= 128 THEN top - 256 ELSE top>> \o rest)
\* '?'
UnpackBool(b, off) == IF b[off + 1] # 0 THEN 1 ELSE 0

-----------------------------------------------------------------------------
(* class Command *)

\* the header counting its own bytes only once the tag is left out
_make_command_short(name, data) ==
    IF ~data.ok THEN Raise("struct.error")
    ELSE LET header == struct_pack(<<pack_H(Len(data.b) + 4), pack_x(2),
                                     pack_s(4, str_encode(name))>>)
         IN IF header.ok THEN Bytes(header.b \o data.b) ELSE Raise("struct.error")

_make_command(name, data) ==
    IF ~data.ok THEN Raise("struct.error")
    ELSE LET header == struct_pack(<<pack_H(Len(data.b) + 8), pack_x(2),
                                     pack_s(4, str_encode(name))>>)
         IN IF header.ok THEN Bytes(header.b \o data.b)
            ELSE Raise("struct.error")

\* Command.get_command: `pass`
Command_get_command(self) == Object("None")

-----------------------------------------------------------------------------
(* A float argument that the encoder scales and truncates is carried as a  *)
(* numerator: hue = n/HueDen, saturation and luma = n/UnitDen.             *)

SubUnit == 2
HueDen == SubUnit * 10
UnitDen == SubUnit * 1000

-----------------------------------------------------------------------------
(* The encoders of AtemCommands.py, one per class.  `self` is the object,  *)
(* a record of its attributes.                                             *)

\* DCut
CutCommand_get_command(self) ==
    LET data == struct_pack(<<pack_B(self.index), pack_x(3)>>)
    IN _make_command(<<68, 67, 117, 116>>, data)

\* DAut
AutoCommand_get_command(self) ==
    LET data == struct_pack(<<pack_B(self.index), pack_x(3)>>)
    IN _make_command(<<68, 65, 117, 116>>, data)

\* CPgI
ProgramInputCommand_get_command(self) ==
    LET data == struct_pack(<<pack_B(self.index), pack_x(1), pack_H(self.source)>>)
    IN _make_command(<<67, 80, 103, 73>>, data)

\* CPvI
PreviewInputCommand_get_command(self) ==
    LET data == struct_pack(<<pack_B(self.index), pack_x(1), pack_H(self.source)>>)
    IN _make_command(<<67, 80, 118, 73>>, data)

\* CAuS
AuxSourceCommand_get_command(self) ==
    LET data == struct_pack(<<pack_B(1), pack_B(self.index), pack_H(self.source)>>)
    IN _make_command(<<67, 65, 117, 83>>, data)

\* CTPs
TransitionPositionCommand_get_command(self) ==
    LET position == self.position
        data == struct_pack(<<pack_B(self.index), pack_x(1), pack_H(position)>>)
    IN _make_command(<<67, 84, 80, 115>>, data)

\* `mask |= 1 << k` under `if x is not None`; the bits of one mask are distinct
\* the test written `is None`
MaskBitInverted(x, k) == IF IsNone(x) THEN Pow2(k) ELSE 0

MaskBit(x, k) == IF ~IsNone(x) THEN Pow2(k) ELSE 0

\* CTTp
TransitionSettingsCommand_get_command(self) ==
    LET mask == MaskBit(self.style, 0) + MaskBit(self.next_transition, 1)
        style == Default(self.style, 0)
        next_transition == Default(self.next_transition, 0)
        data == struct_pack(<<pack_B(mask), pack_B(self.index), pack_B(style),
                              pack_B(next_transition)>>)
    IN _make_command(<<67, 84, 84, 112>>, data)

\* CTPr
TransitionPreviewCommand_get_command(self) ==
    LET data == struct_pack(<<pack_B(self.index), pack_bool(self.enabled), pack_x(2)>>)
    IN _make_command(<<67, 84, 80, 114>>, data)

\* CClV
ColorGeneratorCommand_get_command(self) ==
    LET mask == MaskBit(self.hue, 0) + MaskBit(self.saturation, 1)
                + MaskBit(self.luma, 2)
        hue == IF IsNone(self.hue) THEN 0 ELSE Trunc(Val(self.hue) * 10, HueDen)
        saturation == IF IsNone(self.saturation) THEN 0
                      ELSE Trunc(Val(self.saturation) * 1000, UnitDen)
        luma == IF IsNone(self.luma) THEN 0
                ELSE Trunc(Val(self.luma) * 1000, UnitDen)
        data == struct_pack(<<pack_B(mask), pack_B(self.index), pack_H(hue),
                              pack_H(saturation), pack_H(luma)>>)
    IN _make_command(<<67, 67, 108, 86>>, data)

\* FtbA
FadeToBlackCommand_get_command(self) ==
    LET data == struct_pack(<<pack_B(self.index), pack_x(3)>>)
    IN _make_command(<<70, 116, 98, 65>>, data)

\* FtbC
FadeToBlackConfigCommand_get_command(self) ==
    LET data == struct_pack(<<pack_B(1), pack_B(self.index), pack_B(self.frames),
                              pack_x(1)>>)
    IN _make_command(<<70, 116, 98, 67>>, data)

\* Capt
CaptureStillCommand_get_command(self) ==
    _make_command(<<67, 97, 112, 116>>, struct_pack(<<>>))

\* MediaplayerSelectCommand.__init__: the object, or the exception raised
\* the tests written `if still and clip` / `if not still and not clip`
MediaplayerSelectCommand_init_truthy(index, still, clip) ==
    IF OrZero(still) # 0 /\ OrZero(clip) # 0 THEN Raise("ValueError")
    ELSE IF OrZero(still) = 0 /\ OrZero(clip) = 0 THEN Raise("ValueError")
    ELSE [cls |-> "MediaplayerSelectCommand", index |-> index, still |-> still,
          clip |-> clip, source_type |-> IF IsNone(clip) THEN 1 ELSE 2]

MediaplayerSelectCommand_init(index, still, clip) ==
    IF ~IsNone(still) /\ ~IsNone(clip) THEN Raise("ValueError")
    ELSE IF IsNone(still) /\ IsNone(clip) THEN Raise("ValueError")
    ELSE [cls |-> "MediaplayerSelectCommand", index |-> index, still |-> still,
          clip |-> clip, source_type |-> IF IsNone(clip) THEN 1 ELSE 2]

\* MPSS
MediaplayerSelectCommand_get_command(self) ==
    LET mask == 1 + MaskBit(self.still, 1) + MaskBit(self.clip, 2)
        still == Default(self.still, 0)
        clip == Default(self.clip, 0)
        data == struct_pack(<<pack_B(mask), pack_B(self.index),
                              pack_B(self.source_type), pack_B(still), pack_B(clip),
                              pack_x(3)>>)
    IN _make_command(<<77, 80, 83, 83>>, data)

\* CDsL
DkeyOnairCommand_get_command(self) ==
    LET data == struct_pack(<<pack_B(self.index), pack_bool(self.on_air), pack_x(2)>>)
    IN _make_command(<<67, 68, 115, 76>>, data)

\* CDsT
DkeyTieCommand_get_command(self) ==
    LET data == struct_pack(<<pack_B(self.index), pack_bool(self.tie), pack_x(2)>>)
    IN _make_command(<<67, 68, 115, 84>>, data)

\* DDsA
DkeyAutoCommand_get_command(self) ==
    LET data == struct_pack(<<pack_B(self.index), pack_x(3)>>)
    IN _make_command(<<68, 68, 115, 65>>, data)

\* CDsR
DkeyRateCommand_get_command(self) ==
    LET data == struct_pack(<<pack_B(self.index), pack_B(self.rate), pack_x(2)>>)
    IN _make_command(<<67, 68, 115, 82>>, data)

\* CDsF
DkeySetFillCommand_get_command(self) ==
    LET data == struct_pack(<<pack_B(self.index), pack_x(1), pack_H(self.source)>>)
    IN _make_command(<<67, 68, 115, 70>>, data)

\* CDsC
DkeySetKeyCommand_get_command(self) ==
    LET data == struct_pack(<<pack_B(self.index), pack_x(1), pack_H(self.source)>>)
    IN _make_command(<<67, 68, 115, 67>>, data)

\* CDsG
DkeyGainCommand_get_command(self) ==
    LET mask == MaskBit(self.premultiplied, 0) + MaskBit(self.clip, 1)
                + MaskBit(self.gain, 2) + MaskBit(self.invert, 3)
        premultiplied == Default(self.premultiplied, 0)
        invert == Default(self.invert, 0)
        clip == Default(self.clip, 0)
        gain == Default(self.gain, 0)
        data == struct_pack(<<pack_B(mask), pack_B(self.index),
                              pack_bool(premultiplied), pack_x(1), pack_H(clip),
                              pack_H(gain), pack_bool(invert), pack_x(3)>>)
    IN _make_command(<<67, 68, 115, 71>>, data)

\* CDsM
DkeyMaskCommand_get_command(self) ==
    LET mask == MaskBit(self.enabled, 0) + MaskBit(self.top, 1)
                + MaskBit(self.bottom, 2) + MaskBit(self.left, 3)
                + MaskBit(self.right, 4)
        enabled == Default(self.enabled, 0)
        top == Default(self.top, 0)
        bottom == Default(self.bottom, 0)
        left == Default(self.left, 0)
        right == Default(self.right, 0)
        data == struct_pack(<<pack_B(mask), pack_B(self.index), pack_bool(enabled),
                              pack_x(1), pack_h(top), pack_h(bottom), pack_h(left),
                              pack_h(right)>>)
    IN _make_command(<<67, 68, 115, 77>>, data)

\* CTMx
MixSettingsCommand_get_command(self) ==
    LET data == struct_pack(<<pack_B(self.index), pack_B(self.rate), pack_x(2)>>)
    IN _make_command(<<67, 84, 77, 120>>, data)

\* CTDp
DipSettingsCommand_get_command(self) ==
    LET mask == MaskBit(self.rate, 0) + MaskBit(self.source, 1)
        rate == Default(self.rate, 0)
        source == Default(self.source, 0)
        data == struct_pack(<<pack_B(mask), pack_B(self.index), pack_B(rate),
                              pack_x(1), pack_H(source), pack_x(2)>>)
    IN _make_command(<<67, 84, 68, 112>>, data)

\* CTWp
WipeSettingsCommand_get_command(self) ==
    LET mask == MaskBit(self.rate, 0) + MaskBit(self.pattern, 1)
                + MaskBit(self.width, 2) + MaskBit(self.source, 3)
                + MaskBit(self.symmetry, 4) + MaskBit(self.softness, 5)
                + MaskBit(self.positionx, 6) + MaskBit(self.positiony, 7)
                + MaskBit(self.reverse, 8) + MaskBit(self.flipflop, 9)
        rate == Default(self.rate, 0)
        pattern == Default(self.pattern, 0)
        width == Default(self.width, 0)
        source == Default(self.source, 0)
        symmetry == Default(self.symmetry, 0)
        softness == Default(self.softness, 0)
        x == Default(self.positionx, 0)
        y == Default(self.positiony, 0)
        reverse == Default(self.reverse, 0)
        flipflop == Default(self.flipflop, 0)
        data == struct_pack(<<pack_H(mask), pack_B(self.index), pack_B(rate),
                              pack_B(pattern), pack_x(1), pack_H(width),
                              pack_H(source), pack_H(symmetry), pack_H(softness),
                              pack_H(x), pack_H(y), pack_bool(reverse),
                              pack_bool(flipflop)>>)
    IN _make_command(<<67, 84, 87, 112>>, data)

\* CTDv
DveSettingsCommand_get_command(self) ==
    LET mask == MaskBit(self.rate, 0) + MaskBit(self.style, 2)
                + MaskBit(self.fill_source, 3) + MaskBit(self.key_source, 4)
                + MaskBit(self.key_enable, 5) + MaskBit(self.key_premultiplied, 6)
                + MaskBit(self.key_clip, 7) + MaskBit(self.key_gain, 8)
                + MaskBit(self.key_invert, 9) + MaskBit(self.reverse, 10)
                + MaskBit(self.flipflop, 11)
        rate == Default(self.rate, 0)
        style == Default(self.style, 0)
        fill_source == Default(self.fill_source, 0)
        key_source == Default(self.key_source, 0)
        key_enable == Default(self.key_enable, 0)
        key_premultiplied == Default(self.key_premultiplied, 0)
        key_clip == Default(self.key_clip, 0)
        key_gain == Default(self.key_gain, 0)
        key_invert == Default(self.key_invert, 0)
        reverse == Default(self.reverse, 0)
        flipflop == Default(self.flipflop, 0)
        data == struct_pack(<<pack_H(mask), pack_B(self.index), pack_B(rate),
                              pack_x(1), pack_B(style), pack_H(fill_source),
                              pack_H(key_source), pack_bool(key_enable),
                              pack_bool(key_premultiplied), pack_H(key_clip),
                              pack_H(key_gain), pack_bool(key_invert),
                              pack_bool(reverse), pack_bool(flipflop), pack_x(1)>>)
    IN _make_command(<<67, 84, 68, 118>>, data)

\* CAMM
AudioMasterPropertiesCommand_get_command(self) ==
    LET mask == MaskBit(self.volume, 0) + MaskBit(self.afv, 2)
        afv == Default(self.afv, 0)
        volume == Default(self.volume, 0)
        data == struct_pack(<<pack_B(mask), pack_x(1), pack_H(volume), pack_x(2),
                              pack_bool(afv), pack_x(1)>>)
    IN _make_command(<<67, 65, 77, 77>>, data)

\* CAMm
AudioMonitorPropertiesCommand_get_command(self) ==
    LET mask == MaskBit(self.enabled, 0) + MaskBit(self.volume, 1)
                + MaskBit(self.mute, 2) + MaskBit(self.solo, 3)
                + MaskBit(self.solo_source, 4) + MaskBit(self.dim, 5)
                + MaskBit(self.dim_volume, 6)
        enabled == Default(self.enabled, 0)
        volume == Default(self.volume, 0)
        mute == Default(self.mute, 0)
        solo == Default(self.solo, 0)
        solo_source == Default(self.solo_source, 0)
        dim == Default(self.dim, 0)
        dim_volume == Default(self.dim_volume, 0)
        data == struct_pack(<<pack_B(mask), pack_B(enabled), pack_H(volume),
                              pack_bool(mute), pack_bool(solo), pack_H(solo_source),
                              pack_bool(dim), pack_x(1), pack_H(dim_volume)>>)
    IN _make_command(<<67, 65, 77, 109>>, data)

\* CAMI
AudioInputCommand_get_command(self) ==
    LET mask == (IF ~IsNone(self.on) \/ ~IsNone(self.afv) THEN Pow2(0) ELSE 0)
                + MaskBit(self.volume, 1) + MaskBit(self.balance, 2)
        state == IF ~IsNone(self.on) THEN (IF Val(self.on) # 0 THEN 1 ELSE 0)
                 ELSE IF ~IsNone(self.afv)
                      THEN (IF Val(self.afv) # 0 THEN 1 ELSE 0) * 2
                      ELSE 0
        balance == Default(self.balance, 0)
        volume == Default(self.volume, 0)
        data == struct_pack(<<pack_B(mask), pack_x(1), pack_H(self.source),
                              pack_B(state), pack_x(1), pack_H(volume),
                              pack_h(balance), pack_x(1), pack_x(1)>>)
    IN _make_command(<<67, 65, 77, 73>>, data)

\* CFMP
FairlightMasterPropertiesCommand_get_command(self) ==
    LET mask == MaskBit(self.eq_enable, 0) + MaskBit(self.eq_gain, 1)
                + MaskBit(self.dynamics_gain, 2) + MaskBit(self.volume, 3)
                + MaskBit(self.afv, 4)
        eq_enable == Default(self.eq_enable, 0)
        eq_gain == Default(self.eq_gain, 0)
        dynamics_gain == Default(self.dynamics_gain, 0)
        volume == Default(self.volume, 0)
        afv == Default(self.afv, 0)
        data == struct_pack(<<pack_B(mask), pack_x(5), pack_h(eq_gain), pack_x(2),
                              pack_H(dynamics_gain), pack_i(volume), pack_bool(afv),
                              pack_bool(eq_enable), pack_x(2)>>)
    IN _make_command(<<67, 70, 77, 80>>, data)

\* CFSP
FairlightStripPropertiesCommand_get_command(self) ==
    LET mask == MaskBit(self.delay, 0) + MaskBit(self.gain, 1)
                + MaskBit(self.eq_enable, 3) + MaskBit(self.eq_gain, 4)
                + MaskBit(self.dynamics_gain, 5) + MaskBit(self.balance, 6)
                + MaskBit(self.volume, 7) + MaskBit(self.state, 8)
        delay == Default(self.delay, 0)
        gain == Default(self.gain, 0)
        eq_enable == Default(self.eq_enable, 0)
        eq_gain == Default(self.eq_gain, 0)
        dynamics_gain == Default(self.dynamics_gain, 0)
        balance == Default(self.balance, 0)
        volume == Default(self.volume, 0)
        state == Default(self.state, 0)
        split == IF self.channel > -1 THEN 255 ELSE 1
        channel == IF self.channel = -1 THEN 0 ELSE self.channel
        pad == <<255, 255, 255, 255, 255, 255, 255>>
        data == struct_pack(<<pack_H(mask), pack_H(self.source), pack_x(4),
                              pack_s(6, pad), pack_B(split), pack_b(channel),
                              pack_B(delay), pack_x(3), pack_i(gain),
                              pack_bool(eq_enable), pack_x(5), pack_h(eq_gain),
                              pack_x(2), pack_H(dynamics_gain), pack_h(balance),
                              pack_x(2), pack_i(volume), pack_B(state), pack_x(3)>>)
    IN _make_command(<<67, 70, 83, 80>>, data)

\* FairlightStripPropertiesCommand.get_command assigns self.channel before it
\* packs: the object after the call, also when struct.pack then raises
FairlightStripPropertiesCommand_get_command_self(self) ==
    [self EXCEPT !.channel = IF self.channel = -1 THEN 0 ELSE self.channel]

\* CKOn
KeyOnAirCommand_get_command(self) ==
    LET data == struct_pack(<<pack_B(self.index), pack_B(self.keyer),
                              pack_bool(self.enabled), pack_x(1)>>)
    IN _make_command(<<67, 75, 79, 110>>, data)

\* CKeF
KeyFillCommand_get_command(self) ==
    LET data == struct_pack(<<pack_B(self.index), pack_B(self.keyer),
                              pack_H(self.source)>>)
    IN _make_command(<<67, 75, 101, 70>>, data)

\* CKeC
KeyCutCommand_get_command(self) ==
    LET data == struct_pack(<<pack_B(self.index), pack_B(self.keyer),
                              pack_H(self.source)>>)
    IN _make_command(<<67, 75, 101, 67>>, data)

\* CKTp
KeyTypeCommand_get_command(self) ==
    LET mask == MaskBit(self.type, 0) + MaskBit(self.fly_enabled, 1)
        key_type == Default(self.type, 0)
        fly_enabled == Default(self.fly_enabled, 0)
        data == struct_pack(<<pack_B(mask), pack_B(self.index), pack_B(self.keyer),
                              pack_B(key_type), pack_bool(fly_enabled), pack_x(3)>>)
    IN _make_command(<<67, 75, 84, 112>>, data)

\* CKDV
KeyPropertiesDveCommand_get_command(self) ==
    LET mask == MaskBit(self.size_x, 0) + MaskBit(self.size_y, 1)
                + MaskBit(self.pos_x, 2) + MaskBit(self.pos_y, 3)
                + MaskBit(self.rotation, 4) + MaskBit(self.border_enabled, 5)
                + MaskBit(self.shadow_enabled, 6)
                + MaskBit(self.border_bevel_enabled, 7)
                + MaskBit(self.outer_width, 8) + MaskBit(self.inner_width, 9)
                + MaskBit(self.outer_softness, 10)
                + MaskBit(self.inner_softness, 11)
                + MaskBit(self.bevel_softness, 12)
                + MaskBit(self.bevel_position, 13)
                + MaskBit(self.border_opacity, 14) + MaskBit(self.border_hue, 15)
                + MaskBit(self.border_saturation, 16)
                + MaskBit(self.border_luma, 17) + MaskBit(self.angle, 18)
                + MaskBit(self.altitude, 19) + MaskBit(self.mask_enabled, 20)
                + MaskBit(self.mask_top, 21) + MaskBit(self.mask_bottom, 22)
                + MaskBit(self.mask_left, 23) + MaskBit(self.mask_right, 24)
                + MaskBit(self.rate, 25)
        index == self.index
        keyer == self.keyer
        data == struct_pack(<<
            pack_I(mask), pack_B(index), pack_B(keyer), pack_x(2),
            pack_i(Default(self.size_x, 0)), pack_i(Default(self.size_y, 0)),
            pack_i(Default(self.pos_x, 0)), pack_i(Default(self.pos_y, 0)),
            pack_i(Default(self.rotation, 0)),
            pack_bool(Default(self.border_enabled, 0)),
            pack_bool(Default(self.shadow_enabled, 0)),
            pack_B(Default(self.border_bevel_enabled, 0)), pack_x(1),
            pack_H(Default(self.outer_width, 0)),
            pack_H(Default(self.inner_width, 0)),
            pack_B(Default(self.outer_softness, 0)),
            pack_B(Default(self.inner_softness, 0)),
            pack_B(Default(self.bevel_softness, 0)),
            pack_B(Default(self.bevel_position, 0)),
            pack_B(Default(self.border_opacity, 0)), pack_x(1),
            pack_H(Default(self.border_hue, 0)),
            pack_H(Default(self.border_saturation, 0)),
            pack_H(Default(self.border_luma, 0)),
            pack_H(Default(self.angle, 0)),
            pack_B(Default(self.altitude, 0)),
            pack_bool(Default(self.mask_enabled, 0)),
            pack_h(Default(self.mask_top, 0)), pack_h(Default(self.mask_bottom, 0)),
            pack_h(Default(self.mask_left, 0)), pack_h(Default(self.mask_right, 0)),
            pack_B(Default(self.rate, 0)), pack_x(3)>>)
    IN _make_command(<<67, 75, 68, 86>>, data)

\* CACC
KeyPropertiesAdvancedChromaColorpickerCommand_get_command(self) ==
    LET mask == MaskBit(self.cursor, 0) + MaskBit(self.preview, 1)
                + MaskBit(self.x, 2) + MaskBit(self.y, 3) + MaskBit(self.size, 4)
                + MaskBit(self.Y, 5) + MaskBit(self.Cb, 6) + MaskBit(self.Cr, 7)
        index == self.index
        keyer == self.keyer
        cursor == Default(self.cursor, 0)
        preview == Default(self.preview, 0)
        x == Default(self.x, 0)
        y == Default(self.y, 0)
        size == Default(self.size, 0)
        Y == Default(self.Y, 0)
        Cb == Default(self.Cb, 0)
        Cr == Default(self.Cr, 0)
        data == struct_pack(<<pack_B(mask), pack_B(index), pack_B(keyer),
                              pack_bool(cursor), pack_bool(preview), pack_x(1),
                              pack_h(x), pack_h(y), pack_H(size), pack_H(Y),
                              pack_h(Cb), pack_h(Cr), pack_x(2)>>)
    IN _make_command(<<67, 65, 67, 67>>, data)

\* CACK
KeyPropertiesAdvancedChromaCommand_get_command(self) ==
    LET mask == MaskBit(self.foreground, 0) + MaskBit(self.background, 1)
                + MaskBit(self.key_edge, 2) + MaskBit(self.spill, 3)
                + MaskBit(self.flare, 4) + MaskBit(self.brightness, 5)
                + MaskBit(self.contrast, 6) + MaskBit(self.saturation, 7)
                + MaskBit(self.red, 8) + MaskBit(self.green, 9)
                + MaskBit(self.blue, 10)
        data == struct_pack(<<pack_H(mask), pack_B(self.index), pack_B(self.keyer),
                              pack_H(Default(self.foreground, 0)),
                              pack_H(Default(self.background, 0)),
                              pack_H(Default(self.key_edge, 0)),
                              pack_H(Default(self.spill, 0)),
                              pack_H(Default(self.flare, 0)),
                              pack_h(Default(self.brightness, 0)),
                              pack_h(Default(self.contrast, 0)),
                              pack_H(Default(self.saturation, 0)),
                              pack_h(Default(self.red, 0)),
                              pack_h(Default(self.green, 0)),
                              pack_h(Default(self.blue, 0)), pack_x(2)>>)
    IN _make_command(<<67, 65, 67, 75>>, data)

\* CKLm
KeyPropertiesLumaCommand_get_command(self) ==
    LET mask == MaskBit(self.premultiplied, 0) + MaskBit(self.clip, 1)
                + MaskBit(self.gain, 2) + MaskBit(self.invert_key, 3)
        premultiplied == Default(self.premultiplied, 0)
        clip == Default(self.clip, 0)
        gain == Default(self.gain, 0)
        invert_key == Default(self.invert_key, 0)
        data == struct_pack(<<pack_B(mask), pack_B(self.index), pack_B(self.keyer),
                              pack_bool(premultiplied), pack_H(clip), pack_H(gain),
                              pack_bool(invert_key), pack_x(3)>>)
    IN _make_command(<<67, 75, 76, 109>>, data)

\* SFKF
KeyerKeyframeSetCommand_get_command(self) ==
    LET keyframe == IF self.keyframe = "A" THEN 1 ELSE 2
        data == struct_pack(<<pack_B(self.index), pack_B(self.keyer),
                              pack_B(keyframe), pack_x(1)>>)
    IN _make_command(<<83, 70, 75, 70>>, data)

run_to_lut == [A |-> 1, B |-> 2, Full |-> 3, Infinite |-> 4]

\* RFlK
KeyerKeyframeRunCommand_get_command(self) ==
    IF IsNone(self.run_to) \/ Val(self.run_to) \notin DOMAIN run_to_lut
    THEN Raise("KeyError")
    ELSE LET run_to == run_to_lut[Val(self.run_to)]
             set_infinite == OrZero(self.set_infinite)
             mask == MaskBit(self.set_infinite, 1)
             data == struct_pack(<<pack_B(mask), pack_B(self.index),
                                   pack_B(self.keyer), pack_x(1), pack_B(run_to),
                                   pack_B(set_infinite), pack_x(2)>>)
         IN _make_command(<<82, 70, 108, 75>>, data)

\* RcTM
RecorderStatusCommand_get_command(self) ==
    LET data == struct_pack(<<pack_bool(self.recording), pack_x(3)>>)
    IN _make_command(<<82, 99, 84, 77>>, data)

\* CRMS
RecordingSettingsSetCommand_get_command(self) ==
    LET mask == MaskBit(self.filename, 0) + MaskBit(self.disk1, 1)
                + MaskBit(self.disk2, 2) + MaskBit(self.record_in_camera, 3)
        filename == IF ~IsNone(self.filename) THEN str_encode(Val(self.filename))
                    ELSE <<>>
        ric == Default(self.record_in_camera, 0)
        data == struct_pack(<<pack_B(mask), pack_s(128, filename), pack_x(3),
                              pack_I(OrZero(self.disk1)), pack_I(OrZero(self.disk2)),
                              pack_bool(ric), pack_x(3)>>)
    IN _make_command(<<67, 82, 77, 83>>, data)

\* CRSS
StreamingServiceSetCommand_get_command(self) ==
    IF IsNone(self.bitrate_min) /\ ~IsNone(self.bitrate_max)
    THEN Object("ValueError")
    ELSE IF IsNone(self.bitrate_max) /\ ~IsNone(self.bitrate_min)
    THEN Object("ValueError")
    ELSE LET mask == MaskBit(self.name, 0) + MaskBit(self.url, 1)
                     + MaskBit(self.key, 2) + MaskBit(self.bitrate_min, 3)
             name == IF ~IsNone(self.name) THEN str_encode(Val(self.name)) ELSE <<>>
             url == IF ~IsNone(self.url) THEN str_encode(Val(self.url)) ELSE <<>>
             key == IF ~IsNone(self.key) THEN str_encode(Val(self.key)) ELSE <<>>
             data == struct_pack(<<pack_B(mask), pack_s(64, name), pack_s(512, url),
                                   pack_s(512, key), pack_x(3),
                                   pack_I(OrZero(self.bitrate_min)),
                                   pack_I(OrZero(self.bitrate_max))>>)
         IN _make_command(<<67, 82, 83, 83>>, data)

\* StrR
StreamingStatusSetCommand_get_command(self) ==
    LET data == struct_pack(<<pack_bool(self.streaming), pack_x(3)>>)
    IN _make_command(<<83, 116, 114, 82>>, data)

\* CMvP
MultiviewPropertiesCommand_get_command(self) ==
    LET mask == MaskBit(self.layout, 0) + MaskBit(self.swap, 1)
        layout == Default(self.layout, 0)
        swap == Default(self.swap, 0)
        data == struct_pack(<<pack_B(mask), pack_B(self.index), pack_B(layout),
                              pack_bool(swap)>>)
    IN _make_command(<<67, 77, 118, 80>>, data)

\* CMvI
MultiviewInputCommand_get_command(self) ==
    LET data == struct_pack(<<pack_B(self.index), pack_B(self.window),
                              pack_H(self.source)>>)
    IN _make_command(<<67, 77, 118, 73>>, data)

\* LOCK
LockCommand_get_command(self) ==
    LET data == struct_pack(<<pack_H(self.store), pack_bool(self.state), pack_x(1)>>)
    IN _make_command(<<76, 79, 67, 75>>, data)

\* PLCK
PartialLockCommand_get_command(self) ==
    LET data == struct_pack(<<pack_H(self.store), pack_H(self.slot), pack_B(255),
                              pack_B(1), pack_x(2)>>)
    IN _make_command(<<80, 76, 67, 75>>, data)

\* FTSU with the flag set for every store but the first
TransferDownloadRequestCommand_get_command_generalised(self) ==
    LET u1 == IF self.store # 0 THEN 3 ELSE 0
        data == struct_pack(<<pack_H(self.transfer), pack_H(self.store),
                              pack_I(self.slot), pack_B(u1), pack_B(208), pack_B(155),
                              pack_B(140)>>)
    IN _make_command(<<70, 84, 83, 85>>, data)

\* FTSU
TransferDownloadRequestCommand_get_command(self) ==
    LET u1 == IF self.store = 65535 THEN 3 ELSE 0
        u2 == 208
        u3 == 155
        u4 == 140
        data == struct_pack(<<pack_H(self.transfer), pack_H(self.store),
                              pack_I(self.slot), pack_B(u1), pack_B(u2), pack_B(u3),
                              pack_B(u4)>>)
    IN _make_command(<<70, 84, 83, 85>>, data)

\* FTSD
TransferUploadRequestCommand_get_command(self) ==
    LET data == struct_pack(<<pack_H(self.transfer), pack_H(self.store), pack_x(2),
                              pack_H(self.slot), pack_I(self.length),
                              pack_H(self.mode), pack_x(2)>>)
    IN _make_command(<<70, 84, 83, 68>>, data)

\* FTDa
TransferDataCommand_get_command(self) ==
    LET data == struct_pack(<<pack_H(self.transfer), pack_H(Len(self.data))>>)
    IN _make_command(<<70, 84, 68, 97>>, [ok |-> data.ok, b |-> data.b \o self.data])

\* FTFD
TransferFileDataCommand_get_command(self) ==
    LET name == IF ~IsNone(self.name) THEN str_encode(Val(self.name)) ELSE <<>>
        description == IF ~IsNone(self.description)
                       THEN str_encode(Val(self.description)) ELSE <<>>
        data == struct_pack(<<pack_H(self.transfer), pack_s(64, name),
                              pack_s(128, description), pack_s(16, self.hash),
                              pack_x(2)>>)
    IN _make_command(<<70, 84, 70, 68>>, data)

\* FTUA
TransferAckCommand_get_command(self) ==
    LET data == struct_pack(<<pack_H(self.transfer), pack_H(self.slot)>>)
    IN _make_command(<<70, 84, 85, 65>>, data)

\* SALN
SendAudioLevelsCommand_get_command(self) ==
    LET data == struct_pack(<<pack_bool(self.enable), pack_x(3)>>)
    IN _make_command(<<83, 65, 76, 78>>, data)

\* SFLN
SendFairlightLevelsCommand_get_command(self) ==
    LET data == struct_pack(<<pack_bool(self.enable), pack_x(3)>>)
    IN _make_command(<<83, 70, 76, 78>>, data)

\* CameraControlCommand.__init__
CameraControlCommand_init(destination, category, parameter, relative, datatype, data) ==
    [cls |-> "CameraControlCommand", destination |-> destination,
     category |-> category, parameter |-> parameter, relative |-> relative,
     datatype |-> IF ~IsNone(datatype) THEN Val(datatype) ELSE 0, data |-> data]

\* datatype -> index of the element-count byte among the 11 bytes after the header
countoffset == [d \in {0, 1, 2, 3, 4, 5, 128} |->
                   IF d = 3 \/ d = 128 THEN 4 ELSE 2]

\* one data element under the format character of fmtmap
PackElement(datatype, v) ==
    CASE datatype = 0 -> pack_bool(v)
      [] datatype = 1 -> pack_b(v)
      [] datatype = 2 -> pack_h(v)
      [] datatype = 3 -> pack_i(v)
      [] datatype = 4 -> pack_q(v)
      [] datatype = 128 -> pack_h(v)

\* self.data after the loops of get_command.  A fixed16 element n/SubUnit is
\* replaced by the int int(v * 2**11); a str element by its bytes.
ScaledData(self) ==
    LET d == Val(self.data)
    IN IF self.datatype = 128
       THEN [k \in DOMAIN d |-> Trunc(d[k] * 2048, SubUnit) * SubUnit]
       ELSE IF self.datatype = 5
       THEN [k \in DOMAIN d |-> [type |-> "bytes", v |-> str_encode(d[k].v)]]
       ELSE d

\* the value struct.pack receives for element k
ElementValue(self, k) ==
    IF self.datatype = 128 THEN ScaledData(self)[k] \div SubUnit
    ELSE ScaledData(self)[k]

\* CCmd
CameraControlCommand_get_command(self) ==
    LET count == IF ~IsNone(self.data) THEN Len(Val(self.data)) ELSE 0
        data == struct_pack(<<pack_B(self.destination), pack_B(self.category),
                              pack_B(self.parameter), pack_B(self.relative),
                              pack_B(self.datatype)>>)
    IN IF ~data.ok THEN Raise("struct.error")
       ELSE IF self.datatype \notin DOMAIN countoffset THEN Raise("KeyError")
       ELSE LET elements == [k \in 1..11 |->
                                IF k = countoffset[self.datatype] + 1
                                THEN pack_B(count) ELSE pack_B(0)]
                data2 == struct_pack(elements)
            IN IF ~data2.ok THEN Raise("struct.error")
               ELSE IF IsNone(self.data)
               THEN _make_command(<<67, 67, 109, 100>>, [ok |-> TRUE, b |-> data.b \o data2.b])
               ELSE IF self.datatype = 5 /\ count = 0 THEN Raise("IndexError")
               ELSE IF self.datatype = 5 /\ Val(self.data)[1].type = "bytes"
               THEN Raise("AttributeError")
               ELSE LET packed ==
                          IF self.datatype = 5
                          THEN [ok |-> count = 1,
                                b  |-> pack_s(Len(Val(self.data)[1].v),
                                              ScaledData(self)[1].v).b]
                          ELSE struct_pack([k \in 1..count |->
                                    PackElement(self.datatype, ElementValue(self, k))])
                        packed_data == packed.b \o Zeros(8 - Len(packed.b))
                    IN _make_command(<<67, 67, 109, 100>>,
                           [ok |-> packed.ok, b |-> data.b \o data2.b \o packed_data])

\* the object after CameraControlCommand.get_command: the loops assign to the
\* elements of self.data before struct.pack is called
CameraControlCommand_get_command_self(self) ==
    LET count == IF ~IsNone(self.data) THEN Len(Val(self.data)) ELSE 0
        head == struct_pack(<<pack_B(self.destination), pack_B(self.category),
                              pack_B(self.parameter), pack_B(self.relative),
                              pack_B(self.datatype)>>)
    IN IF \/ ~head.ok
          \/ self.datatype \notin DOMAIN countoffset
          \/ ~pack_B(count).ok
          \/ IsNone(self.data)
          \/ (self.datatype = 5 /\ count = 0)
          \/ (self.datatype = 5 /\ Val(self.data)[1].type = "bytes")
       THEN self
       ELSE [self EXCEPT !.data = Some(ScaledData(self))]

\* CVdM
VideoModeCommand_get_command(self) ==
    LET data == struct_pack(<<pack_B(self.mode), pack_x(3)>>)
    IN _make_command(<<67, 86, 100, 77>>, data)

\* AiVM
AutoInputVideoModeCommand_get_command(self) ==
    LET data == struct_pack(<<pack_bool(self.enable), pack_x(3)>>)
    IN _make_command(<<65, 105, 86, 77>>, data)

\* CInL
InputPropertiesCommand_get_command(self) ==
    LET mask == MaskBit(self.label, 0) + MaskBit(self.short_label, 1)
                + MaskBit(self.port_type, 2)
        label == IF ~IsNone(self.label) THEN str_encode(Val(self.label)) ELSE <<>>
        short == IF ~IsNone(self.short_label)
                 THEN str_encode(Val(self.short_label)) ELSE <<>>
        port_type == Default(self.port_type, 0)
        data == struct_pack(<<pack_B(mask), pack_x(1), pack_H(self.source_index),
                              pack_s(20, label), pack_s(4, short), pack_H(port_type),
                              pack_x(2)>>)
    IN _make_command(<<67, 73, 110, 76>>, data)

\* TiRq
TimeRequestCommand_get_command(self) ==
    _make_command(<<84, 105, 82, 113>>, struct_pack(<<>>))

\* *XFC
TransferCompleteCommand_get_command(self) ==
    LET data == struct_pack(<<pack_H(self.store), pack_H(self.slot),
                              pack_bool(self.upload), pack_x(3)>>)
    IN _make_command(<<42, 88, 70, 67>>, data)

\* dispatch on the class of the object
get_command(self) ==
    CASE self.cls = "Command" -> Command_get_command(self)
      [] self.cls = "CutCommand" -> CutCommand_get_command(self)
      [] self.cls = "AutoCommand" -> AutoCommand_get_command(self)
      [] self.cls = "ProgramInputCommand" -> ProgramInputCommand_get_command(self)
      [] self.cls = "PreviewInputCommand" -> PreviewInputCommand_get_command(self)
      [] self.cls = "AuxSourceCommand" -> AuxSourceCommand_get_command(self)
      [] self.cls = "TransitionPositionCommand" -> TransitionPositionCommand_get_command(self)
      [] self.cls = "TransitionSettingsCommand" -> TransitionSettingsCommand_get_command(self)
      [] self.cls = "TransitionPreviewCommand" -> TransitionPreviewCommand_get_command(self)
      [] self.cls = "ColorGeneratorCommand" -> ColorGeneratorCommand_get_command(self)
      [] self.cls = "FadeToBlackCommand" -> FadeToBlackCommand_get_command(self)
      [] self.cls = "FadeToBlackConfigCommand" -> FadeToBlackConfigCommand_get_command(self)
      [] self.cls = "CaptureStillCommand" -> CaptureStillCommand_get_command(self)
      [] self.cls = "MediaplayerSelectCommand" -> MediaplayerSelectCommand_get_command(self)
      [] self.cls = "DkeyOnairCommand" -> DkeyOnairCommand_get_command(self)
      [] self.cls = "DkeyTieCommand" -> DkeyTieCommand_get_command(self)
      [] self.cls = "DkeyAutoCommand" -> DkeyAutoCommand_get_command(self)
      [] self.cls = "DkeyRateCommand" -> DkeyRateCommand_get_command(self)
      [] self.cls = "DkeySetFillCommand" -> DkeySetFillCommand_get_command(self)
      [] self.cls = "DkeySetKeyCommand" -> DkeySetKeyCommand_get_command(self)
      [] self.cls = "DkeyGainCommand" -> DkeyGainCommand_get_command(self)
      [] self.cls = "DkeyMaskCommand" -> DkeyMaskCommand_get_command(self)
      [] self.cls = "MixSettingsCommand" -> MixSettingsCommand_get_command(self)
      [] self.cls = "DipSettingsCommand" -> DipSettingsCommand_get_command(self)
      [] self.cls = "WipeSettingsCommand" -> WipeSettingsCommand_get_command(self)
      [] self.cls = "DveSettingsCommand" -> DveSettingsCommand_get_command(self)
      [] self.cls = "AudioMasterPropertiesCommand" -> AudioMasterPropertiesCommand_get_command(self)
      [] self.cls = "AudioMonitorPropertiesCommand" -> AudioMonitorPropertiesCommand_get_command(self)
      [] self.cls = "AudioInputCommand" -> AudioInputCommand_get_command(self)
      [] self.cls = "FairlightMasterPropertiesCommand" -> FairlightMasterPropertiesCommand_get_command(self)
      [] self.cls = "FairlightStripPropertiesCommand" -> FairlightStripPropertiesCommand_get_command(self)
      [] self.cls = "KeyOnAirCommand" -> KeyOnAirCommand_get_command(self)
      [] self.cls = "KeyFillCommand" -> KeyFillCommand_get_command(self)
      [] self.cls = "KeyCutCommand" -> KeyCutCommand_get_command(self)
      [] self.cls = "KeyTypeCommand" -> KeyTypeCommand_get_command(self)
      [] self.cls = "KeyPropertiesDveCommand" -> KeyPropertiesDveCommand_get_command(self)
      [] self.cls = "KeyPropertiesAdvancedChromaColorpickerCommand" -> KeyPropertiesAdvancedChromaColorpickerCommand_get_command(self)
      [] self.cls = "KeyPropertiesAdvancedChromaCommand" -> KeyPropertiesAdvancedChromaCommand_get_command(self)
      [] self.cls = "KeyPropertiesLumaCommand" -> KeyPropertiesLumaCommand_get_command(self)
      [] self.cls = "KeyerKeyframeSetCommand" -> KeyerKeyframeSetCommand_get_command(self)
      [] self.cls = "KeyerKeyframeRunCommand" -> KeyerKeyframeRunCommand_get_command(self)
      [] self.cls = "RecorderStatusCommand" -> RecorderStatusCommand_get_command(self)
      [] self.cls = "RecordingSettingsSetCommand" -> RecordingSettingsSetCommand_get_command(self)
      [] self.cls = "StreamingServiceSetCommand" -> StreamingServiceSetCommand_get_command(self)
      [] self.cls = "StreamingStatusSetCommand" -> StreamingStatusSetCommand_get_command(self)
      [] self.cls = "MultiviewPropertiesCommand" -> MultiviewPropertiesCommand_get_command(self)
      [] self.cls = "MultiviewInputCommand" -> MultiviewInputCommand_get_command(self)
      [] self.cls = "LockCommand" -> LockCommand_get_command(self)
      [] self.cls = "PartialLockCommand" -> PartialLockCommand_get_command(self)
      [] self.cls = "TransferDownloadRequestCommand" -> TransferDownloadRequestCommand_get_command(self)
      [] self.cls = "TransferUploadRequestCommand" -> TransferUploadRequestCommand_get_command(self)
      [] self.cls = "TransferDataCommand" -> TransferDataCommand_get_command(self)
      [] self.cls = "TransferFileDataCommand" -> TransferFileDataCommand_get_command(self)
      [] self.cls = "TransferAckCommand" -> TransferAckCommand_get_command(self)
      [] self.cls = "SendAudioLevelsCommand" -> SendAudioLevelsCommand_get_command(self)
      [] self.cls = "SendFairlightLevelsCommand" -> SendFairlightLevelsCommand_get_command(self)
      [] self.cls = "CameraControlCommand" -> CameraControlCommand_get_command(self)
      [] self.cls = "VideoModeCommand" -> VideoModeCommand_get_command(self)
      [] self.cls = "AutoInputVideoModeCommand" -> AutoInputVideoModeCommand_get_command(self)
      [] self.cls = "InputPropertiesCommand" -> InputPropertiesCommand_get_command(self)
      [] self.cls = "TimeRequestCommand" -> TimeRequestCommand_get_command(self)
      [] self.cls = "TransferCompleteCommand" -> TransferCompleteCommand_get_command(self)

\* the object after get_command returned or raised
get_command_self(self) ==
    CASE self.cls = "FairlightStripPropertiesCommand" ->
             FairlightStripPropertiesCommand_get_command_self(self)
      [] self.cls = "CameraControlCommand" ->
             CameraControlCommand_get_command_self(self)
      [] OTHER -> self

\* __init__: the object built from the arguments, or the exception raised.
\* Every __init__ but two stores each argument in the attribute of its name.
New(args) ==
    CASE args.cls = "MediaplayerSelectCommand" ->
             MediaplayerSelectCommand_init(args.index, args.still, args.clip)
      [] args.cls = "CameraControlCommand" ->
             CameraControlCommand_init(args.destination, args.category,
                 args.parameter, args.relative, args.datatype, args.data)
      [] OTHER -> args

IsRaise(r) == "kind" \in DOMAIN r

------------------------------------------------------------------------
\* The objects the model constructs.

\* most optional parameters supplied at once (beside: all of them)
MaxSupplied == 2
\* most get_command calls on one object
MaxCalls == 2
\* longest bytes / list argument
MaxData == 3

\* the parameters of each __init__: required ones, then the ones defaulting
\* to None, each with the kind of value the command is given in use
Sig ==
  [ Command |-> [req |-> <<>>, opt |-> <<>>],
    CutCommand |-> [req |-> <<<<"index", "u8">>>>, opt |-> <<>>],
    AutoCommand |-> [req |-> <<<<"index", "u8">>>>, opt |-> <<>>],
    ProgramInputCommand |-> [req |-> <<<<"index", "u8">>, <<"source", "u16">>>>, opt |-> <<>>],
    PreviewInputCommand |-> [req |-> <<<<"index", "u8">>, <<"source", "u16">>>>, opt |-> <<>>],
    AuxSourceCommand |-> [req |-> <<<<"index", "u8">>, <<"source", "u16">>>>, opt |-> <<>>],
    TransitionPositionCommand |-> [req |-> <<<<"index", "u8">>, <<"position", "u16">>>>, opt |-> <<>>],
    TransitionSettingsCommand |-> [req |-> <<<<"index", "u8">>>>,
        opt |-> <<<<"style", "u8">>, <<"next_transition", "u8">>>>],
    TransitionPreviewCommand |-> [req |-> <<<<"index", "u8">>, <<"enabled", "bool">>>>, opt |-> <<>>],
    ColorGeneratorCommand |-> [req |-> <<<<"index", "u8">>>>,
        opt |-> <<<<"hue", "hue">>, <<"saturation", "unit">>, <<"luma", "unit">>>>],
    FadeToBlackCommand |-> [req |-> <<<<"index", "u8">>>>, opt |-> <<>>],
    FadeToBlackConfigCommand |-> [req |-> <<<<"index", "u8">>, <<"frames", "u8">>>>, opt |-> <<>>],
    CaptureStillCommand |-> [req |-> <<>>, opt |-> <<>>],
    MediaplayerSelectCommand |-> [req |-> <<<<"index", "u8">>>>,
        opt |-> <<<<"still", "u8">>, <<"clip", "u8">>>>],
    DkeyOnairCommand |-> [req |-> <<<<"index", "u8">>, <<"on_air", "bool">>>>, opt |-> <<>>],
    DkeyTieCommand |-> [req |-> <<<<"index", "u8">>, <<"tie", "bool">>>>, opt |-> <<>>],
    DkeyAutoCommand |-> [req |-> <<<<"index", "u8">>>>, opt |-> <<>>],
    DkeyRateCommand |-> [req |-> <<<<"index", "u8">>, <<"rate", "u8">>>>, opt |-> <<>>],
    DkeySetFillCommand |-> [req |-> <<<<"index", "u8">>, <<"source", "u16">>>>, opt |-> <<>>],
    DkeySetKeyCommand |-> [req |-> <<<<"index", "u8">>, <<"source", "u16">>>>, opt |-> <<>>],
    DkeyGainCommand |-> [req |-> <<<<"index", "u8">>>>,
        opt |-> <<<<"premultiplied", "bool">>, <<"clip", "u16">>, <<"gain", "u16">>,
                  <<"invert", "bool">>>>],
    DkeyMaskCommand |-> [req |-> <<<<"index", "u8">>>>,
        opt |-> <<<<"enabled", "bool">>, <<"top", "i16">>, <<"bottom", "i16">>,
                  <<"left", "i16">>, <<"right", "i16">>>>],
    MixSettingsCommand |-> [req |-> <<<<"index", "u8">>, <<"rate", "u8">>>>, opt |-> <<>>],
    DipSettingsCommand |-> [req |-> <<<<"index", "u8">>>>,
        opt |-> <<<<"rate", "u8">>, <<"source", "u16">>>>],
    WipeSettingsCommand |-> [req |-> <<<<"index", "u8">>>>,
        opt |-> <<<<"rate", "u8">>, <<"pattern", "u8">>, <<"width", "u16">>,
                  <<"source", "u16">>, <<"symmetry", "u16">>, <<"softness", "u16">>,
                  <<"positionx", "u16">>, <<"positiony", "u16">>, <<"reverse", "bool">>,
                  <<"flipflop", "bool">>>>],
    DveSettingsCommand |-> [req |-> <<<<"index", "u8">>>>,
        opt |-> <<<<"rate", "u8">>, <<"style", "u8">>, <<"fill_source", "u16">>,
                  <<"key_source", "u16">>, <<"key_enable", "bool">>,
                  <<"key_premultiplied", "bool">>, <<"key_clip", "u16">>,
                  <<"key_gain", "u16">>, <<"key_invert", "bool">>, <<"reverse", "bool">>,
                  <<"flipflop", "bool">>>>],
    AudioMasterPropertiesCommand |-> [req |-> <<>>,
        opt |-> <<<<"volume", "u16">>, <<"afv", "bool">>>>],
    AudioMonitorPropertiesCommand |-> [req |-> <<>>,
        opt |-> <<<<"enabled", "bool">>, <<"volume", "u16">>, <<"mute", "bool">>,
                  <<"solo", "bool">>, <<"solo_source", "u16">>, <<"dim", "bool">>,
                  <<"dim_volume", "u16">>>>],
    AudioInputCommand |-> [req |-> <<<<"source", "u16">>>>,
        opt |-> <<<<"balance", "i16">>, <<"volume", "u16">>, <<"on", "bool">>,
                  <<"afv", "bool">>>>],
    FairlightMasterPropertiesCommand |-> [req |-> <<>>,
        opt |-> <<<<"eq_gain", "i16">>, <<"dynamics_gain", "u16">>, <<"volume", "i32">>,
                  <<"afv", "bool">>, <<"eq_enable", "bool">>>>],
    FairlightStripPropertiesCommand |-> [req |-> <<<<"source", "u16">>, <<"channel", "channel">>>>,
        opt |-> <<<<"delay", "u8">>, <<"gain", "i32">>, <<"eq_gain", "i16">>,
                  <<"eq_enable", "bool">>, <<"dynamics_gain", "u16">>,
                  <<"balance", "i16">>, <<"volume", "i32">>, <<"state", "u8">>>>],
    KeyOnAirCommand |-> [req |-> <<<<"index", "u8">>, <<"keyer", "u8">>, <<"enabled", "bool">>>>,
        opt |-> <<>>],
    KeyFillCommand |-> [req |-> <<<<"index", "u8">>, <<"keyer", "u8">>, <<"source", "u16">>>>,
        opt |-> <<>>],
    KeyCutCommand |-> [req |-> <<<<"index", "u8">>, <<"keyer", "u8">>, <<"source", "u16">>>>,
        opt |-> <<>>],
    KeyTypeCommand |-> [req |-> <<<<"index", "u8">>, <<"keyer", "u8">>>>,
        opt |-> <<<<"type", "u8">>, <<"fly_enabled", "bool">>>>],
    KeyPropertiesDveCommand |-> [req |-> <<<<"index", "u8">>, <<"keyer", "u8">>>>,
        opt |-> <<<<"size_x", "i32">>, <<"size_y", "i32">>, <<"pos_x", "i32">>,
                  <<"pos_y", "i32">>, <<"rotation", "i32">>, <<"border_enabled", "bool">>,
                  <<"shadow_enabled", "bool">>, <<"border_bevel_enabled", "u8">>,
                  <<"outer_width", "u16">>, <<"inner_width", "u16">>,
                  <<"outer_softness", "u8">>, <<"inner_softness", "u8">>,
                  <<"bevel_softness", "u8">>, <<"bevel_position", "u8">>,
                  <<"border_opacity", "u8">>, <<"border_hue", "u16">>,
                  <<"border_saturation", "u16">>, <<"border_luma", "u16">>,
                  <<"angle", "u16">>, <<"altitude", "u8">>, <<"mask_enabled", "bool">>,
                  <<"mask_top", "i16">>, <<"mask_bottom", "i16">>, <<"mask_left", "i16">>,
                  <<"mask_right", "i16">>, <<"rate", "u8">>>>],
    KeyPropertiesAdvancedChromaColorpickerCommand |->
        [req |-> <<<<"index", "u8">>, <<"keyer", "u8">>>>,
         opt |-> <<<<"cursor", "bool">>, <<"preview", "bool">>, <<"x", "i16">>,
                   <<"y", "i16">>, <<"size", "u16">>, <<"Y", "u16">>, <<"Cb", "i16">>,
                   <<"Cr", "i16">>>>],
    KeyPropertiesAdvancedChromaCommand |-> [req |-> <<<<"index", "u8">>, <<"keyer", "u8">>>>,
        opt |-> <<<<"foreground", "u16">>, <<"background", "u16">>, <<"key_edge", "u16">>,
                  <<"spill", "u16">>, <<"flare", "u16">>, <<"brightness", "i16">>,
                  <<"contrast", "i16">>, <<"saturation", "u16">>, <<"red", "i16">>,
                  <<"green", "i16">>, <<"blue", "i16">>>>],
    KeyPropertiesLumaCommand |-> [req |-> <<<<"index", "u8">>, <<"keyer", "u8">>>>,
        opt |-> <<<<"premultiplied", "bool">>, <<"clip", "u16">>, <<"gain", "u16">>,
                  <<"invert_key", "bool">>>>],
    KeyerKeyframeSetCommand |-> [req |-> <<<<"index", "u8">>, <<"keyer", "u8">>,
                                          <<"keyframe", "keyframe">>>>, opt |-> <<>>],
    KeyerKeyframeRunCommand |-> [req |-> <<<<"index", "u8">>, <<"keyer", "u8">>>>,
        opt |-> <<<<"run_to", "run_to">>, <<"set_infinite", "u8">>>>],
    RecorderStatusCommand |-> [req |-> <<<<"recording", "bool">>>>, opt |-> <<>>],
    RecordingSettingsSetCommand |-> [req |-> <<>>,
        opt |-> <<<<"filename", "str">>, <<"disk1", "u32">>, <<"disk2", "u32">>,
                  <<"record_in_camera", "bool">>>>],
    StreamingServiceSetCommand |-> [req |-> <<>>,
        opt |-> <<<<"name", "str">>, <<"url", "str">>, <<"key", "str">>,
                  <<"bitrate_min", "u32">>, <<"bitrate_max", "u32">>>>],
    StreamingStatusSetCommand |-> [req |-> <<<<"streaming", "bool">>>>, opt |-> <<>>],
    MultiviewPropertiesCommand |-> [req |-> <<<<"index", "u8">>>>,
        opt |-> <<<<"layout", "u8">>, <<"swap", "bool">>>>],
    MultiviewInputCommand |-> [req |-> <<<<"index", "u8">>, <<"window", "u8">>,
                                        <<"source", "u16">>>>, opt |-> <<>>],
    LockCommand |-> [req |-> <<<<"store", "u16">>, <<"state", "bool">>>>, opt |-> <<>>],
    PartialLockCommand |-> [req |-> <<<<"store", "u16">>, <<"slot", "u16">>>>, opt |-> <<>>],
    TransferDownloadRequestCommand |-> [req |-> <<<<"transfer", "u16">>, <<"store", "u16">>,
                                                 <<"slot", "u32">>>>, opt |-> <<>>],
    TransferUploadRequestCommand |-> [req |-> <<<<"transfer", "u16">>, <<"store", "u16">>,
        <<"slot", "u16">>, <<"length", "u32">>, <<"mode", "u16">>>>, opt |-> <<>>],
    TransferDataCommand |-> [req |-> <<<<"transfer", "u16">>, <<"data", "bytes">>>>,
        opt |-> <<>>],
    TransferFileDataCommand |-> [req |-> <<<<"transfer", "u16">>, <<"hash", "bytes">>>>,
        opt |-> <<<<"name", "str">>, <<"description", "str">>>>],
    TransferAckCommand |-> [req |-> <<<<"transfer", "u16">>, <<"slot", "u16">>>>, opt |-> <<>>],
    SendAudioLevelsCommand |-> [req |-> <<<<"enable", "bool">>>>, opt |-> <<>>],
    SendFairlightLevelsCommand |-> [req |-> <<<<"enable", "bool">>>>, opt |-> <<>>],
    VideoModeCommand |-> [req |-> <<<<"mode", "u8">>>>, opt |-> <<>>],
    AutoInputVideoModeCommand |-> [req |-> <<<<"enable", "bool">>>>, opt |-> <<>>],
    InputPropertiesCommand |-> [req |-> <<<<"source_index", "u16">>>>,
        opt |-> <<<<"label", "str">>, <<"short_label", "str">>, <<"port_type", "u16">>>>],
    TimeRequestCommand |-> [req |-> <<>>, opt |-> <<>>],
    TransferCompleteCommand |-> [req |-> <<<<"store", "u16">>, <<"slot", "u16">>,
                                          <<"upload", "bool">>>>, opt |-> <<>>] ]

\* a bytes value of n bytes
Pattern(n) == [k \in 1..n |-> (k * 37) % 256]

\* the value of the parameter at position k that is zero, False or empty
ZeroVal(type) ==
    CASE type \in {"str", "bytes"} -> <<>>
      [] type = "keyframe" -> "A"
      [] type = "run_to" -> "A"
      [] OTHER -> 0

\* a value of the parameter at position k that is in range and not zero;
\* hue and unit are numerators over HueDen and UnitDen that fall between two
\* wire units
AltVal(type, k) ==
    CASE type = "u8" -> k
      [] type = "u16" -> 1000 + k
      [] type = "i16" -> 0 - (1000 + k)
      [] type = "u32" -> 70000 + k
      [] type = "i32" -> 0 - (70000 + k)
      [] type = "bool" -> 1
      [] type = "channel" -> 0 - 1
      [] type = "str" -> <<96 + k, 233>>
      [] type = "bytes" -> Pattern(MaxData)
      [] type = "keyframe" -> "B"
      [] type = "run_to" -> "Infinite"
      [] type = "hue" -> 3599 * SubUnit + 1
      [] type = "unit" -> 999 * SubUnit + 1

\* a value the wire format of the parameter cannot hold
BadVal(type) ==
    CASE type = "u8" -> 256
      [] type = "u16" -> 65536
      [] type = "i16" -> 32768
      [] type = "u32" -> 0 - 1
      [] type = "i32" -> 0 - 1
      [] type = "bool" -> 5
      [] type = "channel" -> 1
      [] type = "str" -> <<>>
      [] type = "bytes" -> Pattern(1)
      [] type = "keyframe" -> "B"
      [] type = "run_to" -> "Z"
      [] type = "hue" -> 0 - HueDen
      [] type = "unit" -> 66 * UnitDen

\* required arguments: all zero, all non-zero, all out of range
ReqVal(type, variant, k) ==
    CASE variant = 0 -> ZeroVal(type)
      [] variant = 1 -> AltVal(type, k)
      [] variant = 2 -> BadVal(type)

RECURSIVE Small(_, _)
\* the subsets of S of at most n elements
Small(S, n) ==
    IF n = 0 THEN {{}}
    ELSE LET T == Small(S, n - 1)
         IN T \cup {t \cup {x} : t \in T, x \in S}

\* the argument record of one call of cls.__init__: the optional parameters
\* at the positions T supplied, those in A non-zero, those in B out of range
Args(cls, variant, T, A, B) ==
    LET req == Sig[cls].req
        opt == Sig[cls].opt
        names == {req[k][1] : k \in DOMAIN req} \cup {opt[k][1] : k \in DOMAIN opt}
    IN [n \in names \cup {"cls"} |->
          IF n = "cls" THEN cls
          ELSE IF \E k \in DOMAIN req : req[k][1] = n
          THEN LET k == CHOOSE k \in DOMAIN req : req[k][1] = n
               IN ReqVal(req[k][2], variant, k)
          ELSE LET k == CHOOSE k \in DOMAIN opt : opt[k][1] = n
               IN IF k \notin T THEN None
                  ELSE IF k \in B THEN Some(BadVal(opt[k][2]))
                  ELSE IF k \in A THEN Some(AltVal(opt[k][2], k))
                  ELSE Some(ZeroVal(opt[k][2]))]

\* the calls of cls.__init__ the model makes
CtorArgs(cls) ==
    LET all == DOMAIN Sig[cls].opt
    IN IF all = {}
       THEN {Args(cls, variant, {}, {}, {}) : variant \in 0..2}
       ELSE UNION {{Args(cls, variant, T, A, {}) : variant \in 0..1, A \in {{}, T}} :
                      T \in Small(all, MaxSupplied) \cup {all}}
            \cup {Args(cls, 1, {k}, {}, {k}) : k \in all}

\* the data lists given to CameraControlCommand, by datatype
CameraData(datatype) ==
    CASE datatype = 128 ->
             {<<0>>, <<1>>, <<SubUnit>>, <<0 - 3 * SubUnit, 15 * SubUnit + 1>>,
              <<16 * SubUnit>>}
      [] datatype = 5 ->
             {<<>>, <<[type |-> "str", v |-> <<97, 233>>]>>,
              <<[type |-> "bytes", v |-> <<97, 98>>]>>,
              <<[type |-> "str", v |-> <<97>>], [type |-> "str", v |-> <<98>>]>>}
      [] OTHER ->
             {[k \in 1..n |-> k - 2] : n \in 0..MaxData}
             \cup {<<1, 0 - 2, 3, 4, 5, 6, 7, 8, 9>>, <<1, 200>>}


CommandClasses == DOMAIN Sig

\* int(v * 2**11) of every fixed16 element of the object stays a machine integer
\* of the model
Representable(self) ==
    self.cls = "CameraControlCommand" /\ self.datatype = 128 /\ ~IsNone(self.data)
        => \A k \in DOMAIN Val(self.data) :
               Val(self.data)[k] < Pow2(18) /\ Val(self.data)[k] > 0 - Pow2(18)

------------------------------------------------------------------------
(* AtemStatuses.py: the fields.  A struct format is a sequence of
   <<character, count>>: '>BBxx 5i' is << <<"B", 2>>, <<"x", 2>>, <<"i", 5>> >>.
   A field object is a record with cls, raw and the attributes __init__ sets;
   a float made by a division is the record [num, den]. *)

Ratio(num, den) == [num |-> num, den |-> den]

ItemSize(c) ==
    CASE c \in {"B", "b", "?", "x", "s", "p"} -> 1
      [] c \in {"H", "h"} -> 2
      [] c \in {"I", "i"} -> 4

RECURSIVE calcsize(_)
calcsize(fmt) ==
    IF fmt = <<>> THEN 0
    ELSE ItemSize(Head(fmt)[1]) * Head(fmt)[2] + calcsize(Tail(fmt))

\* one value of format character c at 0-based offset off
UnpackValue(c, raw, off) ==
    CASE c \in {"B", "H", "I"} -> Unsigned(raw, off, ItemSize(c))
      [] c \in {"b", "h", "i"} -> Signed(raw, off, ItemSize(c))
      [] c = "?" -> UnpackBool(raw, off)

\* 'p': the first byte is the length, capped by the room the format leaves
UnpackPascal(raw, off, n) ==
    LET len == IF raw[off + 1] >= n THEN n - 1 ELSE raw[off + 1]
    IN SubSeq(raw, off + 2, off + 1 + len)

RECURSIVE UnpackValues(_, _, _)
UnpackValues(fmt, raw, off) ==
    IF fmt = <<>> THEN <<>>
    ELSE LET c == Head(fmt)[1]
             n == Head(fmt)[2]
         IN CASE c = "x" -> UnpackValues(Tail(fmt), raw, off + n)
              [] c = "s" -> <<SubSeq(raw, off + 1, off + n)>>
                                \o UnpackValues(Tail(fmt), raw, off + n)
              [] c = "p" -> <<UnpackPascal(raw, off, n)>>
                                \o UnpackValues(Tail(fmt), raw, off + n)
              [] OTHER ->
                   IF n = 0 THEN UnpackValues(Tail(fmt), raw, off)
                   ELSE <<UnpackValue(c, raw, off)>>
                            \o UnpackValues(<<<<c, n - 1>>>> \o Tail(fmt), raw,
                                            off + ItemSize(c))

\* struct.unpack: the buffer must have exactly the size of the format; a 'p'
\* of no bytes cannot be read
struct_unpack(fmt, raw) ==
    LET ok == /\ Len(raw) = calcsize(fmt)
              /\ \A k \in DOMAIN fmt : fmt[k][1] = "p" => fmt[k][2] > 0
    IN [ok |-> ok, v |-> IF ok THEN UnpackValues(fmt, raw, 0) ELSE <<>>]

\* struct.unpack_from: the buffer must hold the format from the offset on
struct_unpack_from(fmt, raw, offset) ==
    LET ok == Len(raw) - offset >= calcsize(fmt)
    IN [ok |-> ok, v |-> IF ok THEN UnpackValues(fmt, raw, offset) ELSE <<>>]

\* ColV read with the hue in hundredths of a degree
ColorGeneratorField_init_hundredths(raw) ==
    LET field == struct_unpack(<< <<"B", 1>>, <<"x", 1>>, <<"H", 3>> >>, raw)
    IN IF ~field.ok THEN Raise("struct.error")
       ELSE [cls |-> "ColorGeneratorField", raw |-> raw, index |-> field.v[1],
             hue |-> Ratio(field.v[2], 100),
             saturation |-> Ratio(field.v[3], 1000),
             luma |-> Ratio(field.v[4], 1000)]

\* ColV
ColorGeneratorField_init(raw) ==
    LET field == struct_unpack(<< <<"B", 1>>, <<"x", 1>>, <<"H", 3>> >>, raw)
    IN IF ~field.ok THEN Raise("struct.error")
       ELSE [cls |-> "ColorGeneratorField", raw |-> raw, index |-> field.v[1],
             hue |-> Ratio(field.v[2], 10),
             saturation |-> Ratio(field.v[3], 1000),
             luma |-> Ratio(field.v[4], 1000)]

\* DskP
DkeyPropertiesField_init(raw) ==
    LET field == struct_unpack(<< <<"B", 1>>, <<"?", 1>>, <<"B", 1>>, <<"?", 1>>,
                                  <<"H", 2>>, <<"?", 1>>, <<"?", 1>>, <<"h", 4>>,
                                  <<"B", 2>> >>, raw)
    IN IF ~field.ok THEN Raise("struct.error")
       ELSE [cls |-> "DkeyPropertiesField", raw |-> raw, index |-> field.v[1],
             tie |-> field.v[2], rate |-> field.v[3],
             premultiplied |-> field.v[4], clip |-> field.v[5],
             gain |-> field.v[6], invert_key |-> field.v[7],
             masked |-> field.v[8], top |-> field.v[9], bottom |-> field.v[10],
             left |-> field.v[11], right |-> field.v[12]]

\* TDpP
TransitionDipField_init(raw) ==
    LET field == struct_unpack(<< <<"B", 2>>, <<"H", 1>> >>, raw)
    IN IF ~field.ok THEN Raise("struct.error")
       ELSE [cls |-> "TransitionDipField", raw |-> raw, index |-> field.v[1],
             rate |-> field.v[2], source |-> field.v[3]]

\* TWpP
TransitionWipeField_init(raw) ==
    LET field == struct_unpack(<< <<"B", 3>>, <<"x", 1>>, <<"H", 6>>, <<"?", 2>>,
                                  <<"x", 2>> >>, raw)
    IN IF ~field.ok THEN Raise("struct.error")
       ELSE [cls |-> "TransitionWipeField", raw |-> raw, index |-> field.v[1],
             rate |-> field.v[2], pattern |-> field.v[3], width |-> field.v[4],
             source |-> field.v[5], symmetry |-> field.v[6],
             softness |-> field.v[7], positionx |-> field.v[8],
             positiony |-> field.v[9], reverse |-> field.v[10],
             flipflop |-> field.v[11]]

\* TDvP
TransitionDveField_init(raw) ==
    LET field == struct_unpack(<< <<"B", 2>>, <<"x", 1>>, <<"B", 1>>, <<"H", 2>>,
                                  <<"?", 2>>, <<"H", 2>>, <<"?", 3>>, <<"x", 3>> >>,
                               raw)
    IN IF ~field.ok THEN Raise("struct.error")
       ELSE [cls |-> "TransitionDveField", raw |-> raw, index |-> field.v[1],
             rate |-> field.v[2], style |-> field.v[3],
             fill_source |-> field.v[4], key_source |-> field.v[5],
             key_enable |-> field.v[6], key_premultiplied |-> field.v[7],
             key_clip |-> field.v[8], key_gain |-> field.v[9],
             key_invert |-> field.v[10], reverse |-> field.v[11],
             flipflop |-> field.v[12]]

\* KeDV
KeyPropertiesDveField_init(raw) ==
    LET field == struct_unpack(<< <<"B", 2>>, <<"x", 2>>, <<"i", 5>>, <<"?", 2>>,
                                  <<"B", 1>>, <<"x", 1>>, <<"H", 2>>, <<"B", 5>>,
                                  <<"x", 1>>, <<"H", 4>>, <<"B", 1>>, <<"?", 1>>,
                                  <<"h", 4>>, <<"B", 1>>, <<"x", 3>> >>, raw)
    IN IF ~field.ok THEN Raise("struct.error")
       ELSE [cls |-> "KeyPropertiesDveField", raw |-> raw, index |-> field.v[1],
             keyer |-> field.v[2], size_x |-> field.v[3], size_y |-> field.v[4],
             pos_x |-> field.v[5], pos_y |-> field.v[6], rotation |-> field.v[7],
             border_enabled |-> field.v[8], shadow_enabled |-> field.v[9],
             border_bevel |-> field.v[10],
             border_outer_width |-> field.v[11],
             border_inner_width |-> field.v[12],
             border_outer_softness |-> field.v[13],
             border_inner_softness |-> field.v[14],
             border_bevel_softness |-> field.v[15],
             border_bevel_position |-> field.v[16],
             border_opacity |-> field.v[17],
             border_hue |-> Ratio(field.v[18], 10),
             border_saturation |-> Ratio(field.v[19], 1000),
             border_luma |-> Ratio(field.v[20], 1000),
             light_angle |-> field.v[21], light_altitude |-> field.v[22],
             mask_enabled |-> field.v[23], mask_top |-> field.v[24],
             mask_bottom |-> field.v[25], mask_left |-> field.v[26],
             mask_right |-> field.v[27], rate |-> field.v[28]]

\* KeLm
KeyPropertiesLumaField_init(raw) ==
    LET field == struct_unpack(<< <<"B", 2>>, <<"?", 1>>, <<"x", 1>>, <<"H", 2>>,
                                  <<"?", 1>>, <<"x", 3>> >>, raw)
    IN IF ~field.ok THEN Raise("struct.error")
       ELSE [cls |-> "KeyPropertiesLumaField", raw |-> raw, index |-> field.v[1],
             keyer |-> field.v[2], premultiplied |-> field.v[3],
             clip |-> field.v[4], gain |-> field.v[5],
             key_inverted |-> field.v[6]]

\* KACk
KeyPropertiesAdvancedChromaField_init(raw) ==
    LET field == struct_unpack(<< <<"B", 2>>, <<"H", 5>>, <<"h", 2>>, <<"H", 1>>,
                                  <<"h", 3>> >>, raw)
    IN IF ~field.ok THEN Raise("struct.error")
       ELSE [cls |-> "KeyPropertiesAdvancedChromaField", raw |-> raw,
             index |-> field.v[1], keyer |-> field.v[2],
             foreground |-> field.v[3], background |-> field.v[4],
             key_edge |-> field.v[5], spill_suppress |-> field.v[6],
             flare_suppress |-> field.v[7], brightness |-> field.v[8],
             contrast |-> field.v[9], saturation |-> field.v[10],
             red |-> field.v[11], green |-> field.v[12], blue |-> field.v[13]]

\* KACC
KeyPropertiesAdvancedChromaColorpickerField_init(raw) ==
    LET field == struct_unpack(<< <<"B", 2>>, <<"?", 2>>, <<"h", 2>>, <<"H", 1>>,
                                  <<"H", 3>> >>, raw)
    IN IF ~field.ok THEN Raise("struct.error")
       ELSE [cls |-> "KeyPropertiesAdvancedChromaColorpickerField", raw |-> raw,
             index |-> field.v[1], keyer |-> field.v[2], cursor |-> field.v[3],
             preview |-> field.v[4], x |-> field.v[5], y |-> field.v[6],
             size |-> field.v[7],
             Y |-> Ratio(field.v[8] - 625, 8544),
             Cb |-> Ratio(field.v[9] - 5000, 5000),
             Cr |-> Ratio(field.v[10] - 5000, 5000)]

\* MvPr
MultiviewerPropertiesField_init(raw) ==
    LET field == struct_unpack(<< <<"B", 2>>, <<"?", 1>>, <<"B", 1>> >>, raw)
    IN IF ~field.ok THEN Raise("struct.error")
       ELSE [cls |-> "MultiviewerPropertiesField", raw |-> raw,
             index |-> field.v[1], layout |-> field.v[2], flip |-> field.v[3],
             u1 |-> field.v[4],
             top_left_small |-> BitSet(field.v[2], 0),
             top_right_small |-> BitSet(field.v[2], 1),
             bottom_left_small |-> BitSet(field.v[2], 2),
             bottom_right_small |-> BitSet(field.v[2], 3)]

\* InCm
InitCompleteField_init(raw) ==
    [cls |-> "InitCompleteField", raw |-> raw]

\* VideoModeField.__init__ modes: resolution, interlaced, rate, widescreen
modes ==
    [m \in 0..27 |->
        LET res == CASE m \in {0, 2} -> 525
                     [] m \in {1, 3} -> 625
                     [] m \in {4, 5} -> 720
                     [] m \in 6..13 \cup {26, 27} -> 1080
                     [] m \in 14..19 -> 2160
                     [] m \in 20..25 -> 4320
            rate == CASE m \in {0, 2, 5, 7, 13, 19, 25} -> Ratio(5994, 100)
                      [] m \in {1, 3, 4, 6, 12, 18, 24} -> Ratio(50, 1)
                      [] m \in {8, 14, 20} -> Ratio(2398, 100)
                      [] m \in {9, 15, 21} -> Ratio(24, 1)
                      [] m \in {10, 16, 22} -> Ratio(25, 1)
                      [] m \in {11, 17, 23} -> Ratio(2997, 100)
                      [] m = 26 -> Ratio(30, 1)
                      [] m = 27 -> Ratio(60, 1)
        IN [resolution |-> res, interlaced |-> m \in {0, 1, 2, 3, 6, 7},
            rate |-> rate, widescreen |-> m \notin {0, 1}]]

\* VidM
VideoModeField_init(raw) ==
    LET field == struct_unpack(<< <<"B", 1>>, <<"x", 3>> >>, raw)
    IN IF ~field.ok THEN Raise("struct.error")
       ELSE IF field.v[1] \in DOMAIN modes
       THEN [cls |-> "VideoModeField", raw |-> raw, mode |-> field.v[1],
             resolution |-> modes[field.v[1]].resolution,
             interlaced |-> modes[field.v[1]].interlaced,
             rate |-> modes[field.v[1]].rate,
             widescreen |-> modes[field.v[1]].widescreen]
       ELSE [cls |-> "VideoModeField", raw |-> raw, mode |-> field.v[1]]

\* VideoModeField.get_label: the str, as code points, or the exception.  A
\* field of a mode outside the table has no attribute resolution.
VideoModeField_get_label(self) ==
    IF "resolution" \notin DOMAIN self THEN Raise("AttributeError")
    ELSE LET digits(n) ==
                 LET d == <<n \div 1000, (n \div 100) % 10, (n \div 10) % 10, n % 10>>
                     lead == CHOOSE k \in 1..4 :
                                 /\ d[k] # 0 \/ k = 4
                                 /\ \A j \in 1..(k - 1) : d[j] = 0
                 IN [k \in 1..(5 - lead) |-> 48 + d[lead + k - 1]]
             pi == IF self.interlaced THEN <<105>> ELSE <<112>>
             rate == IF self.rate.den = 1 THEN digits(self.rate.num)
                     ELSE digits(self.rate.num \div 100) \o <<46>>
                          \o <<48 + ((self.rate.num % 100) \div 10),
                                48 + (self.rate.num % 10)>>
             aspect == IF self.resolution < 720
                       THEN (IF self.widescreen THEN <<32, 49, 54, 58, 57>>
                             ELSE <<32, 52, 58, 51>>)
                       ELSE <<>>
         IN [kind |-> "str", exc |-> "",
             val |-> digits(self.resolution) \o pi \o rate \o aspect]

_int_to_mode(mode) == VideoModeField_init(<<mode, 0, 0, 0>>)

\* the modes of the set bits, lowest first; the model's integers stop short
\* of bit 31
_bitfield_to_modes(bitfield) ==
    LET set == SelectSeq([k \in 1..31 |-> k - 1], LAMBDA i : BitSet(bitfield, i))
    IN [k \in DOMAIN set |-> _int_to_mode(set[k])]

\* _VMC
VideoModeCapabilityField_init(raw) ==
    LET head == struct_unpack_from(<< <<"H", 1>> >>, raw, 0)
        entry == << <<"B", 1>>, <<"x", 3>>, <<"I", 2>>, <<"?", 1>> >>
    IN IF ~head.ok THEN Raise("struct.error")
       ELSE LET count == head.v[1]
            IN IF \E i \in 0..(count - 1) :
                      ~struct_unpack_from(entry, raw, 4 + i * 13).ok
               THEN Raise("struct.error")
               ELSE [cls |-> "VideoModeCapabilityField", raw |-> raw,
                     modes |-> [k \in 1..count |->
                         LET f == struct_unpack_from(entry, raw, 4 + (k - 1) * 13).v
                         IN [modenum |-> f[1], mode |-> _int_to_mode(f[1]),
                             multiview |-> _bitfield_to_modes(f[2]),
                             downscale |-> _bitfield_to_modes(f[3]),
                             reconfigure |-> f[4]]]]

\* VideoModeCapabilityField.__repr__: the labels of the modes, or the
\* exception of the first get_label that fails
VideoModeCapabilityField_repr(self) ==
    LET label == [k \in DOMAIN self.modes |-> VideoModeField_get_label(self.modes[k].mode)]
    IN IF \E k \in DOMAIN label : label[k].kind = "raise"
       THEN Raise("AttributeError")
       ELSE [kind |-> "str", exc |-> "",
             val |-> <<60, 118, 105, 100, 101, 111, 45, 109, 111, 100, 101, 45, 99,
                       97, 112, 97, 98, 105, 108, 105, 116, 121, 58, 32>>
                     \o Join([k \in DOMAIN label |->
                                 (IF k > 1 THEN <<32>> ELSE <<>>) \o label[k].val])
                     \o <<62>>]

\* (tally & 1 != 0, tally & 2 != 0)
TallyPair(tally) == <<BitSet(tally, 0), BitSet(tally, 1)>>

\* TlIn
TallyIndexField_init(raw) ==
    LET head == struct_unpack_from(<< <<"H", 1>> >>, raw, 0)
    IN IF ~head.ok THEN Raise("struct.error")
       ELSE LET num == head.v[1]
            IN IF \E i \in 0..(num - 1) :
                      ~struct_unpack_from(<< <<"B", 1>> >>, raw, 2 + i).ok
               THEN Raise("struct.error")
               ELSE [cls |-> "TallyIndexField", raw |-> raw, num |-> num,
                     tally |-> [k \in 1..num |-> TallyPair(raw[2 + k])]]

\* a dict filled by d[keys[i]] = values[i] for i = 1, 2, ... in order: the
\* last assignment to a key stays
DictOf(keys, values) ==
    [s \in {keys[i] : i \in DOMAIN keys} |->
        values[CHOOSE i \in DOMAIN keys :
                  keys[i] = s /\ \A j \in DOMAIN keys : keys[j] = s => j <= i]]

\* TlSr
TallySourceField_init(raw) ==
    LET head == struct_unpack_from(<< <<"H", 1>> >>, raw, 0)
        entry == << <<"H", 1>>, <<"B", 1>> >>
    IN IF ~head.ok THEN Raise("struct.error")
       ELSE LET num == head.v[1]
                at(i) == struct_unpack_from(entry, raw, 2 + (i - 1) * 3)
                source == [i \in 1..num |-> at(i).v[1]]
                pair == [i \in 1..num |-> TallyPair(at(i).v[2])]
            IN IF \E i \in 1..num : ~at(i).ok
               THEN Raise("struct.error")
               ELSE [cls |-> "TallySourceField", raw |-> raw, num |-> num,
                     tally |-> DictOf(source, pair)]

\* AMTl; the key '{source}.0' is kept as the source
AudioMixerTallyField_init(raw) ==
    LET head == struct_unpack_from(<< <<"H", 1>> >>, raw, 0)
        entry == << <<"H", 1>>, <<"?", 1>> >>
    IN IF ~head.ok THEN Raise("struct.error")
       ELSE LET num == head.v[1]
                at(i) == struct_unpack_from(entry, raw, 2 + (i - 1) * 3)
                strip_id == [i \in 1..num |-> at(i).v[1]]
                tally == [i \in 1..num |-> at(i).v[2]]
            IN IF \E i \in 1..num : ~at(i).ok
               THEN Raise("struct.error")
               ELSE [cls |-> "AudioMixerTallyField", raw |-> raw, num |-> num,
                     tally |-> DictOf(strip_id, tally)]

\* MPfe
MediaplayerFileInfoField_init(raw) ==
    LET namelen == IF Len(raw) - 23 > 0 THEN Len(raw) - 23 ELSE 0
        field == struct_unpack(<< <<"B", 1>>, <<"x", 1>>, <<"H", 1>>, <<"?", 1>>,
                                  <<"s", 16>>, <<"x", 2>>, <<"p", namelen>> >>, raw)
    IN IF Len(raw) < 23 THEN Raise("struct.error")
       ELSE IF namelen = 0 THEN Raise("SystemError")
       ELSE [cls |-> "MediaplayerFileInfoField", raw |-> raw, type |-> field.v[1],
             index |-> field.v[2], is_used |-> field.v[3], hash |-> field.v[4],
             name |-> field.v[5]]

\* raw[start:stop] for 0 <= start <= stop
Slice(raw, start, stop) ==
    SubSeq(raw, start + 1, IF stop < Len(raw) THEN stop ELSE Len(raw))

\* FTDa
FileTransferDataField_init(raw) ==
    LET head == struct_unpack(<< <<"H", 2>> >>, Slice(raw, 0, 4))
    IN IF ~head.ok THEN Raise("struct.error")
       ELSE [cls |-> "FileTransferDataField", raw |-> raw,
             transfer |-> head.v[1], size |-> head.v[2],
             data |-> Slice(raw, 4, 4 + head.v[2])]

\* FTDE
FileTransferErrorField_init(raw) ==
    LET field == struct_unpack(<< <<"H", 1>>, <<"B", 1>>, <<"x", 1>> >>, raw)
    IN IF ~field.ok THEN Raise("struct.error")
       ELSE [cls |-> "FileTransferErrorField", raw |-> raw,
             transfer |-> field.v[1], status |-> field.v[2]]

\* FTDC
FileTransferDataCompleteField_init(raw) ==
    LET field == struct_unpack(<< <<"H", 1>>, <<"B", 1>>, <<"B", 1>> >>, raw)
    IN IF ~field.ok THEN Raise("struct.error")
       ELSE [cls |-> "FileTransferDataCompleteField", raw |-> raw,
             transfer |-> field.v[1], u1 |-> field.v[2], u2 |-> field.v[3]]

\* FTCD
FileTransferContinueDataField_init(raw) ==
    LET field == struct_unpack(<< <<"H", 1>>, <<"x", 4>>, <<"H", 1>>, <<"H", 1>>,
                                  <<"x", 2>> >>, raw)
    IN IF ~field.ok THEN Raise("struct.error")
       ELSE [cls |-> "FileTransferContinueDataField", raw |-> raw,
             transfer |-> field.v[1], size |-> field.v[2], count |-> field.v[3]]

\* MPrp
MacroPropertiesField_init(raw) ==
    LET field == struct_unpack_from(<< <<"H", 1>>, <<"?", 2>>, <<"H", 2>> >>, raw, 0)
    IN IF ~field.ok THEN Raise("struct.error")
       ELSE LET name_length == field.v[4]
                desc_length == field.v[5]
                text == struct_unpack_from(<< <<"s", name_length>>,
                                              <<"s", desc_length>> >>, raw, 8)
            IN IF ~text.ok THEN Raise("struct.error")
               ELSE [cls |-> "MacroPropertiesField", raw |-> raw,
                     index |-> field.v[1], is_used |-> field.v[2],
                     is_invalid |-> field.v[3], name |-> text.v[1],
                     description |-> text.v[2]]

\* _level with the full scale of a 16-bit sample
_level_16bit(value) ==
    IF value = 0 THEN [db |-> 0 - 60]
    ELSE [log10x20 |-> Ratio(value, 65536)]

\* AudioMeterLevelsField._level: -60 for silence, else
\* log10(value / (128 * 65536)) * 20, kept as the ratio inside the logarithm
_level(value) ==
    IF value = 0 THEN [db |-> 0 - 60]
    ELSE [log10x20 |-> Ratio(value, 128 * 65536)]

\* AMLv
AudioMeterLevelsField_init(raw) ==
    LET fmt == << <<"H", 1>>, <<"x", 2>>, <<"I", 4>>, <<"I", 4>> >>
        field == struct_unpack_from(fmt, raw, 0)
    IN IF ~field.ok THEN Raise("struct.error")
       ELSE LET count == field.v[1]
                offset == calcsize(fmt)
                sources == struct_unpack_from(<< <<"H", count>> >>, raw, offset)
                offset2 == ((offset + 2 * count + 3) \div 4) * 4
                levels == struct_unpack_from(<< <<"I", count * 4>> >>, raw, offset2)
                level == [i \in 1..count |->
                             <<_level(levels.v[4 * i - 3]), _level(levels.v[4 * i - 2]),
                               _level(levels.v[4 * i - 1]), _level(levels.v[4 * i])>>]
            IN IF ~sources.ok \/ ~levels.ok THEN Raise("struct.error")
               ELSE [cls |-> "AudioMeterLevelsField", raw |-> raw, count |-> count,
                     master |-> <<_level(field.v[2]), _level(field.v[3]),
                                  _level(field.v[4]), _level(field.v[5])>>,
                     monitor |-> <<_level(field.v[6]), _level(field.v[7]),
                                   _level(field.v[8]), _level(field.v[9])>>,
                     input |-> DictOf(sources.v, level)]

\* FairlightMeterLevelsField._level: 0 for 0, -60 for -10000, else
\* (exp(log(COEFF + 1) * x) - 1) / COEFF * 60 - 60 with x = (value + 10000) / 10000
\* and COEFF = 10 ** (40 / 20), kept as x and COEFF
FairlightMeterLevelsField_level(value) ==
    IF value = 0 THEN [db |-> 0]
    ELSE IF value + 10000 = 0 THEN [db |-> 0 - 60]
    ELSE [curve |-> Ratio(value + 10000, 10000), COEFF |-> 100]

\* FMLv
FairlightMeterLevelsField_init(raw) ==
    LET field == struct_unpack_from(<< <<"x", 6>>, <<"B", 1>>, <<"B", 1>>, <<"H", 1>>,
                                       <<"h", 15>> >>, raw, 0)
        level(k) == FairlightMeterLevelsField_level(field.v[k + 1])
    IN IF ~field.ok THEN Raise("struct.error")
       ELSE [cls |-> "FairlightMeterLevelsField", raw |-> raw,
             index |-> field.v[3], is_split |-> field.v[1],
             subchannel |-> field.v[2],
             strip_id |-> IF field.v[1] = 255 THEN <<field.v[3], field.v[2]>>
                          ELSE <<field.v[3], 0>>,
             input |-> <<level(3), level(4), level(5), level(6)>>,
             expander_gr |-> level(7), compressor_gr |-> level(8),
             limiter_gr |-> level(9),
             output |-> <<level(10), level(11), level(12), level(13)>>,
             level |-> <<level(14), level(15), level(16), level(17)>>]

\* _level with the floor of the legacy mixer for a raw 0
FairlightMasterLevelsField_level_legacy(value) ==
    IF value = 0 THEN [db |-> 0 - 60]
    ELSE [curve |-> Ratio(value + 10000, 10000), COEFF |-> 100]

\* FairlightMasterLevelsField._level
FairlightMasterLevelsField_level(value) ==
    IF value = 0 THEN [db |-> 0]
    ELSE IF value + 10000 = 0 THEN [db |-> 0 - 60]
    ELSE [curve |-> Ratio(value + 10000, 10000), COEFF |-> 100]

\* FDLv
FairlightMasterLevelsField_init(raw) ==
    LET field == struct_unpack_from(<< <<"h", 14>> >>, raw, 0)
        level(k) == FairlightMasterLevelsField_level(field.v[k + 1])
    IN IF ~field.ok THEN Raise("struct.error")
       ELSE [cls |-> "FairlightMasterLevelsField", raw |-> raw,
             input |-> <<level(0), level(1), level(2), level(3)>>,
             compressor_gr |-> level(4), limiter_gr |-> level(5),
             output |-> <<level(6), level(7), level(8), level(9)>>,
             level |-> <<level(10), level(11), level(12), level(13)>>]

\* cls(raw) for the field classes of the model
\* AMIP
AudioMixerInputPropertiesField_init(raw) ==
    LET field == struct_unpack(<< <<"H", 1>>, <<"B", 1>>, <<"x", 2>>, <<"?", 1>>,
                                  <<"B", 2>>, <<"x", 1>>, <<"H", 1>>, <<"h", 1>>,
                                  <<"x", 3>> >>, raw)
    IN IF ~field.ok THEN Raise("struct.error")
       ELSE [cls |-> "AudioMixerInputPropertiesField", raw |-> raw,
             index |-> field.v[1], type |-> field.v[2],
             is_media_player |-> field.v[3], number |-> field.v[4],
             mix_option |-> field.v[5], volume |-> field.v[6],
             balance |-> field.v[7], strip_id |-> <<field.v[1], 0>>]

\* AMIP
AudioInputField_init(raw) ==
    LET field == struct_unpack(<< <<"H", 1>>, <<"B", 1>>, <<"x", 2>>, <<"B", 1>>,
                                  <<"x", 1>>, <<"B", 2>>, <<"x", 1>>, <<"H", 1>>,
                                  <<"h", 1>>, <<"x", 2>> >>, raw)
    IN IF ~field.ok THEN Raise("struct.error")
       ELSE [cls |-> "AudioInputField", raw |-> raw,
             index |-> field.v[1], type |-> field.v[2], number |-> field.v[3],
             plug |-> field.v[4], state |-> field.v[5], volume |-> field.v[6],
             balance |-> field.v[7], strip_id |-> <<field.v[1], 0>>]

\* FMHP
FairlightHeadphonesField_init(raw) ==
    LET field == struct_unpack(<< <<"i", 1>>, <<"x", 4>>, <<"?", 1>>, <<"x", 23>> >>, raw)
    IN IF ~field.ok THEN Raise("struct.error")
       ELSE [cls |-> "FairlightHeadphonesField", raw |-> raw,
             volume |-> field.v[1], unmuted |-> field.v[2]]

\* FAMS
FairlightSoloField_init(raw) ==
    LET field == struct_unpack(<< <<"?", 1>>, <<"x", 8>>, <<"B", 1>>, <<"x", 12>>,
                                  <<"B", 2>> >>, raw)
    IN IF ~field.ok THEN Raise("struct.error")
       ELSE [cls |-> "FairlightSoloField", raw |-> raw,
             solo |-> field.v[1], channel |-> field.v[2],
             is_split_lr |-> field.v[3], subchannel |-> field.v[4]]

\* AiVM
AutoInputVideoModeField_init(raw) ==
    LET v == struct_unpack(<< <<"?", 2>>, <<"x", 2>> >>, raw)
    IN IF ~v.ok THEN Raise("struct.error")
       ELSE [cls |-> "AutoInputVideoModeField", raw |-> raw,
             enabled |-> v.v[1], detected |-> v.v[2]]

\* *XFC
TransferCompleteField_init(raw) ==
    LET v == struct_unpack(<< <<"H", 2>>, <<"?", 1>>, <<"x", 3>> >>, raw)
    IN IF ~v.ok THEN Raise("struct.error")
       ELSE [cls |-> "TransferCompleteField", raw |-> raw,
             store |-> v.v[1], slot |-> v.v[2], upload |-> v.v[3]]

Field(cls, raw) ==
    CASE cls = "ColorGeneratorField" -> ColorGeneratorField_init(raw)
      [] cls = "DkeyPropertiesField" -> DkeyPropertiesField_init(raw)
      [] cls = "TransitionDipField" -> TransitionDipField_init(raw)
      [] cls = "TransitionWipeField" -> TransitionWipeField_init(raw)
      [] cls = "TransitionDveField" -> TransitionDveField_init(raw)
      [] cls = "KeyPropertiesDveField" -> KeyPropertiesDveField_init(raw)
      [] cls = "KeyPropertiesLumaField" -> KeyPropertiesLumaField_init(raw)
      [] cls = "KeyPropertiesAdvancedChromaField" ->
             KeyPropertiesAdvancedChromaField_init(raw)
      [] cls = "KeyPropertiesAdvancedChromaColorpickerField" ->
             KeyPropertiesAdvancedChromaColorpickerField_init(raw)
      [] cls = "MultiviewerPropertiesField" -> MultiviewerPropertiesField_init(raw)
      [] cls = "InitCompleteField" -> InitCompleteField_init(raw)
      [] cls = "VideoModeField" -> VideoModeField_init(raw)
      [] cls = "VideoModeCapabilityField" -> VideoModeCapabilityField_init(raw)
      [] cls = "TallyIndexField" -> TallyIndexField_init(raw)
      [] cls = "TallySourceField" -> TallySourceField_init(raw)
      [] cls = "AudioMixerTallyField" -> AudioMixerTallyField_init(raw)
      [] cls = "MediaplayerFileInfoField" -> MediaplayerFileInfoField_init(raw)
      [] cls = "FileTransferDataField" -> FileTransferDataField_init(raw)
      [] cls = "FileTransferErrorField" -> FileTransferErrorField_init(raw)
      [] cls = "FileTransferDataCompleteField" ->
             FileTransferDataCompleteField_init(raw)
      [] cls = "FileTransferContinueDataField" ->
             FileTransferContinueDataField_init(raw)
      [] cls = "MacroPropertiesField" -> MacroPropertiesField_init(raw)
      [] cls = "AudioMeterLevelsField" -> AudioMeterLevelsField_init(raw)
      [] cls = "FairlightMeterLevelsField" -> FairlightMeterLevelsField_init(raw)
      [] cls = "FairlightMasterLevelsField" -> FairlightMasterLevelsField_init(raw)
      [] cls = "AutoInputVideoModeField" -> AutoInputVideoModeField_init(raw)
      [] cls = "AudioMixerInputPropertiesField" ->
             AudioMixerInputPropertiesField_init(raw)
      [] cls = "AudioInputField" -> AudioInputField_init(raw)
      [] cls = "FairlightHeadphonesField" -> FairlightHeadphonesField_init(raw)
      [] cls = "FairlightSoloField" -> FairlightSoloField_init(raw)
      [] cls = "TransferCompleteField" -> TransferCompleteField_init(raw)

------------------------------------------------------------------------
\* The payloads the model decodes.

\* largest count or length a payload announces
MaxCount == 2
\* most bytes behind the announced region
MaxExtra == 1

FieldClasses ==
    {"ColorGeneratorField", "DkeyPropertiesField", "TransitionDipField",
     "TransitionWipeField", "TransitionDveField", "KeyPropertiesDveField",
     "KeyPropertiesLumaField", "KeyPropertiesAdvancedChromaField",
     "KeyPropertiesAdvancedChromaColorpickerField",
     "MultiviewerPropertiesField", "InitCompleteField", "VideoModeField",
     "VideoModeCapabilityField", "TallyIndexField", "TallySourceField",
     "AudioMixerTallyField", "MediaplayerFileInfoField",
     "FileTransferDataField", "MacroPropertiesField", "AudioMeterLevelsField",
     "FileTransferErrorField", "FileTransferDataCompleteField",
     "FileTransferContinueDataField", "FairlightMeterLevelsField",
     "FairlightMasterLevelsField", "AutoInputVideoModeField",
     "TransferCompleteField", "AudioMixerInputPropertiesField",
     "AudioInputField", "FairlightHeadphonesField", "FairlightSoloField"}

\* bytes of the fixed layouts: struct.calcsize of the format of __init__,
\* the documented 4 bytes for InCm
FixedSize ==
    [ColorGeneratorField |-> 8, DkeyPropertiesField |-> 20,
     TransitionDipField |-> 4, TransitionWipeField |-> 20,
     TransitionDveField |-> 20, KeyPropertiesDveField |-> 60,
     KeyPropertiesLumaField |-> 12, KeyPropertiesAdvancedChromaField |-> 24,
     KeyPropertiesAdvancedChromaColorpickerField |-> 16,
     MultiviewerPropertiesField |-> 4, InitCompleteField |-> 4,
     VideoModeField |-> 4, FileTransferErrorField |-> 4,
     FileTransferDataCompleteField |-> 4, FileTransferContinueDataField |-> 12,
     FairlightMeterLevelsField |-> 40, FairlightMasterLevelsField |-> 28,
     AutoInputVideoModeField |-> 4, TransferCompleteField |-> 8,
     AudioMixerInputPropertiesField |-> 16, AudioInputField |-> 16,
     FairlightHeadphonesField |-> 32, FairlightSoloField |-> 24]

\* n bytes that differ from each other, all below 8
Ramp(n, seed) == [k \in 1..n |-> (k * 3 + seed) % 8]

\* a level of the audio mixer as it is sent: silence, full scale, or 1
Meter(k) ==
    CASE k % 3 = 0 -> <<0, 0, 0, 0>>
      [] k % 3 = 1 -> <<0, 128, 0, 0>>
      [] k % 3 = 2 -> <<0, 0, 0, 1>>

\* a level of the fairlight mixer as it is sent: 0, -10000, -5000, or 1
FairlightMeter(k) ==
    CASE k % 4 = 0 -> <<0, 0>>
      [] k % 4 = 1 -> <<216, 240>>
      [] k % 4 = 2 -> <<236, 120>>
      [] k % 4 = 3 -> <<0, 1>>

\* the payloads a device sends, complete as the layout of cls has them; dup
\* makes two entries of a keyed collection name the same source
WellFormed(cls) ==
    CASE cls = "VideoModeField" -> {<<m, 0, 0, 0>> : m \in {0, 5, 27, 28}}
      [] cls = "FairlightMeterLevelsField" ->
             {Ramp(6, 1) \o <<split, 1, 0, 3>>
                  \o Join([k \in 1..15 |-> FairlightMeter(k + s)]) :
                 split \in {0, 255}, s \in 0..3}
      [] cls = "FairlightMasterLevelsField" ->
             {Join([k \in 1..14 |-> FairlightMeter(k + s)]) : s \in 0..3}
      [] cls = "FileTransferErrorField" ->
             {<<0, 7, code, 0>> : code \in {0, 1, 2, 5, 255}}
      [] cls = "AutoInputVideoModeField" ->
             {<<enabled, detected, 0, 0>> : enabled \in {0, 1}, detected \in {0, 1}}
      [] cls = "TransferCompleteField" ->
             {<<0, store, 1, 4, upload, 0, 0, 0>> : store \in {0, 2}, upload \in {0, 1}}
      [] cls \in DOMAIN FixedSize ->
             {Pattern(FixedSize[cls]), Ramp(FixedSize[cls], 1)}
      [] cls = "TallyIndexField" ->
             {<<0, n>> \o Ramp(n, 0) : n \in 0..MaxCount}
      [] cls \in {"TallySourceField", "AudioMixerTallyField"} ->
             {<<0, n>> \o Join([i \in 1..n |-> <<3, IF dup THEN 1 ELSE i, i % 4>>]) :
                 n \in 0..MaxCount, dup \in BOOLEAN}
      [] cls = "MediaplayerFileInfoField" ->
             {<<1, 0, 0, 2, 1>> \o Pattern(16) \o <<0, 0, n>> \o Ramp(n, 65) :
                 n \in 0..MaxCount}
      [] cls = "FileTransferDataField" ->
             {<<0, 7, 0, n>> \o Ramp(n, 1) : n \in 0..MaxCount}
      [] cls = "MacroPropertiesField" ->
             {<<0, 4, 1, 0, 0, n, 0, d>> \o Ramp(n, 2) \o Ramp(d, 5) :
                 n \in 0..MaxCount, d \in 0..MaxCount}
      [] cls = "AudioMeterLevelsField" ->
             {<<0, n, 0, 0>> \o Ramp(32, 0)
                  \o Join([i \in 1..n |-> <<0, IF dup THEN 1 ELSE i>>])
                  \o Zeros((2 * n) % 4)
                  \o Join([i \in 1..n |-> Ramp(16, i)]) :
                 n \in 0..MaxCount, dup \in BOOLEAN}
             \cup {<<0, n, 0, 0>> \o Join([k \in 1..8 |-> Meter(k + s)])
                       \o Join([i \in 1..n |-> <<0, IF dup THEN 1 ELSE i>>])
                       \o Zeros((2 * n) % 4)
                       \o Join([k \in 1..(4 * n) |-> Meter(k + s)]) :
                      n \in 0..MaxCount, dup \in BOOLEAN, s \in 0..2}
      [] cls = "VideoModeCapabilityField" ->
             {<<0, n, 0, 0>>
                  \o Join([i \in 1..n |-> <<26 + i, 0, 0, 0>> \o Ramp(8, i) \o <<i % 2>>]) :
                 n \in 0..MaxCount}
             \cup {<<0, 1, 0, 0, 5, 0, 0, 0>> \o multiview \o <<0, 0, 0, 2, 1>> :
                      multiview \in {<<16, 0, 0, 1>>, <<0, 0, 0, 1>>}}

\* a payload as it arrives: complete, cut short anywhere, or followed by
\* up to MaxExtra further bytes
Payloads(cls) ==
    UNION {{SubSeq(p, 1, k) : k \in 0..Len(p)}
               \cup {p \o [i \in 1..k |-> 170 + i] : k \in 1..MaxExtra} :
           p \in WellFormed(cls)}

Init == /\ pc = "idle"
        /\ obj = None
        /\ ctor = None
        /\ ret = NotCalled
        /\ first = NotCalled
        /\ calls = 0
        /\ wire = <<>>
        /\ fld = None
        /\ thr = <<>>
        /\ inbox = [pairs |-> <<>>, results |-> <<>>]

------------------------------------------------------------------------
\* The caller's steps: build a command, ask it for its frame.

Built(args) ==
    LET r == New(args)
    IN /\ ctor' = Some(args)
       /\ calls' = 0
       /\ first' = NotCalled
       /\ UNCHANGED <<wire, fld, thr, inbox>>
       /\ IF IsRaise(r)
          THEN pc' = "failed" /\ obj' = None /\ ret' = r
          ELSE pc' = "built" /\ obj' = Some(r) /\ ret' = NotCalled

\* cls(...) for the classes whose __init__ takes scalars
Construct ==
    /\ pc = "idle"
    /\ \E cls \in CommandClasses : \E args \in CtorArgs(cls) : Built(args)

\* the category and parameter of the fixed16 commands constructed
CameraParameters == {<<0, 0>>, <<1, 13>>, <<11, 0>>}

\* CameraControlCommand(...)
ConstructCamera ==
    /\ pc = "idle"
    /\ \/ \E dest \in {1, 256}, rel \in {0, 1},
            dt \in {None, Some(0), Some(2), Some(5), Some(128), Some(7)} :
              Built([cls |-> "CameraControlCommand", destination |-> dest,
                     category |-> 1, parameter |-> 2, relative |-> rel,
                     datatype |-> dt, data |-> None])
       \/ \E dt \in {0, 1, 2, 3, 4, 5, 128} : \E d \in CameraData(dt) :
              Built([cls |-> "CameraControlCommand", destination |-> 255,
                     category |-> 0, parameter |-> 13, relative |-> 0,
                     datatype |-> Some(dt), data |-> Some(d)])
       \/ \E cp \in CameraParameters : \E d \in CameraData(128) :
              Built([cls |-> "CameraControlCommand", destination |-> 1,
                     category |-> cp[1], parameter |-> cp[2], relative |-> 0,
                     datatype |-> Some(128), data |-> Some(d)])

\* AudioInputCommand(source, on=..., afv=...): each of the two omitted, False
\* or True
ConstructMixOption ==
    /\ pc = "idle"
    /\ \E on \in {None, Some(0), Some(1)}, afv \in {None, Some(0), Some(1)} :
           Built([cls |-> "AudioInputCommand", source |-> 1, balance |-> None,
                  volume |-> None, on |-> on, afv |-> afv])

\* the whole hues given to a colour generator: the ends of the documented
\* range, the first past it, the last the wire holds, the first it cannot
IntegerHues == {0, 1, 3599, 3600, 6553, 6554, 0 - 1}

\* ColorGeneratorCommand(index, hue=h) for a whole h
ConstructHue ==
    /\ pc = "idle"
    /\ \E h \in IntegerHues, index \in {0, 1} :
           Built([cls |-> "ColorGeneratorCommand", index |-> index,
                  hue |-> Some(h * HueDen), saturation |-> None, luma |-> None])

\* the stores a download is requested from: stills, clips, the last store
\* before the macro store, the macro store
DownloadStores == {0, 1, 65534, 65535}

\* TransferDownloadRequestCommand(transfer, store, slot)
ConstructDownload ==
    /\ pc = "idle"
    /\ \E transfer \in {0, 1, 65535}, store \in DownloadStores, slot \in {0, 2, 70000} :
           Built([cls |-> "TransferDownloadRequestCommand", transfer |-> transfer,
                  store |-> store, slot |-> slot])

\* obj.get_command()
GetCommand ==
    /\ pc = "built"
    /\ calls < MaxCalls
    /\ Representable(Val(obj))
    /\ ret' = get_command(Val(obj))
    /\ obj' = Some(get_command_self(Val(obj)))
    /\ first' = IF calls = 0 THEN ret' ELSE first
    /\ calls' = calls + 1
    /\ UNCHANGED <<pc, ctor, wire, fld, thr, inbox>>

------------------------------------------------------------------------
\* Two threads in get_command of one object.  A thread switch can fall
\* between any two reads or writes of an attribute of the object; a step of a
\* thread is one such read or write with the local computation around it.

Threads == {1, 2}

\* the commands the threads share: the two whose get_command assigns to self,
\* and one whose get_command only reads
SharedCommands ==
    {"FairlightStripPropertiesCommand", "CameraControlCommand", "TransferAckCommand"}

\* the locals of a thread that has just entered get_command
Entered ==
    [at |-> "start", i |-> 0, tmp |-> 0, split |-> 0, fmtlen |-> 0, ret |-> NotCalled]

\* return value
Returned(local, value) == [local EXCEPT !.at = "done", !.ret = value]

\* struct.pack and _make_command of FairlightStripPropertiesCommand.get_command,
\* with the local split and the channel the object has by then
FairlightStripPropertiesCommand_pack(self, split) ==
    LET mask == MaskBit(self.delay, 0) + MaskBit(self.gain, 1)
                + MaskBit(self.eq_enable, 3) + MaskBit(self.eq_gain, 4)
                + MaskBit(self.dynamics_gain, 5) + MaskBit(self.balance, 6)
                + MaskBit(self.volume, 7) + MaskBit(self.state, 8)
        pad == <<255, 255, 255, 255, 255, 255, 255>>
        data == struct_pack(<<pack_H(mask), pack_H(self.source), pack_x(4),
                              pack_s(6, pad), pack_B(split), pack_b(self.channel),
                              pack_B(Default(self.delay, 0)), pack_x(3),
                              pack_i(Default(self.gain, 0)),
                              pack_bool(Default(self.eq_enable, 0)), pack_x(5),
                              pack_h(Default(self.eq_gain, 0)), pack_x(2),
                              pack_H(Default(self.dynamics_gain, 0)),
                              pack_h(Default(self.balance, 0)), pack_x(2),
                              pack_i(Default(self.volume, 0)),
                              pack_B(Default(self.state, 0)), pack_x(3)>>)
    IN _make_command(<<67, 70, 83, 80>>, data)

\* one step of a thread in FairlightStripPropertiesCommand.get_command
FairlightStripPropertiesCommand_step(self, local) ==
    CASE local.at = "start" ->
             [self |-> self,
              local |-> [local EXCEPT !.at = "assign",
                            !.split = IF self.channel > -1 THEN 255 ELSE 1]]
      [] local.at = "assign" ->
             [self |-> [self EXCEPT !.channel = IF self.channel = -1 THEN 0
                                                ELSE self.channel],
              local |-> [local EXCEPT !.at = "pack"]]
      [] local.at = "pack" ->
             [self |-> self,
              local |-> Returned(local,
                            FairlightStripPropertiesCommand_pack(self, local.split))]

\* get_command of CameraControlCommand goes through its two loops
Loops(self) == ~IsNone(self.data) /\ self.datatype \in {128, 5}

\* get_command of CameraControlCommand from struct.pack(fmt, *self.data) on,
\* with the elements the list holds by then and the length fmt was made with
CameraControlCommand_pack(self, fmtlen) ==
    LET d == Val(self.data)
        count == Len(d)
        data == struct_pack(<<pack_B(self.destination), pack_B(self.category),
                              pack_B(self.parameter), pack_B(self.relative),
                              pack_B(self.datatype)>>)
        data2 == struct_pack([k \in 1..11 |->
                                 IF k = countoffset[self.datatype] + 1
                                 THEN pack_B(count) ELSE pack_B(0)])
        packed == IF self.datatype = 5
                  THEN [ok |-> count = 1, b |-> pack_s(fmtlen, d[1].v).b]
                  ELSE struct_pack([k \in 1..count |-> pack_h(d[k] \div SubUnit)])
        packed_data == packed.b \o Zeros(8 - Len(packed.b))
    IN _make_command(<<67, 67, 109, 100>>,
           [ok |-> packed.ok, b |-> data.b \o data2.b \o packed_data])

\* self.data[i] = int(self.data[i] * (2 ** 11)), self.data[i].encode(): the
\* value assigned for the element that was read
Converted(self, element) ==
    IF self.datatype = 128 THEN Trunc(element * 2048, SubUnit) * SubUnit
    ELSE [type |-> "bytes", v |-> str_encode(element.v)]

\* one step of a thread in CameraControlCommand.get_command
CameraControlCommand_step(self, local) ==
    LET d == Val(self.data)
        head == struct_pack(<<pack_B(self.destination), pack_B(self.category),
                              pack_B(self.parameter), pack_B(self.relative),
                              pack_B(self.datatype)>>)
    IN CASE local.at = "start" ->
                [self |-> self,
                 local |->
                    IF ~Loops(self) \/ ~head.ok \/ ~pack_B(Len(d)).ok
                    THEN Returned(local, CameraControlCommand_get_command(self))
                    ELSE IF self.datatype = 5 /\ Len(d) = 0
                    THEN Returned(local, Raise("IndexError"))
                    ELSE [local EXCEPT !.at = IF Len(d) = 0 THEN "pack" ELSE "read",
                             !.i = 1,
                             !.fmtlen = IF self.datatype = 5 THEN Len(d[1].v) ELSE 0]]
         [] local.at = "read" ->
                [self |-> self,
                 local |->
                    IF self.datatype = 5 /\ d[local.i].type = "bytes"
                    THEN Returned(local, Raise("AttributeError"))
                    ELSE [local EXCEPT !.at = "write", !.tmp = d[local.i]]]
         [] local.at = "write" ->
                [self |-> [self EXCEPT !.data =
                              Some([d EXCEPT ![local.i] = Converted(self, local.tmp)])],
                 local |-> [local EXCEPT !.at = IF local.i = Len(d) THEN "pack"
                                                ELSE "read",
                               !.i = local.i + 1, !.tmp = 0]]
         [] local.at = "pack" ->
                [self |-> self,
                 local |-> Returned(local, CameraControlCommand_pack(self, local.fmtlen))]

\* one step of a thread in get_command of self
get_command_step(self, local) ==
    CASE self.cls = "FairlightStripPropertiesCommand" ->
             FairlightStripPropertiesCommand_step(self, local)
      [] self.cls = "CameraControlCommand" -> CameraControlCommand_step(self, local)
      [] OTHER -> [self |-> self, local |-> Returned(local, get_command(self))]

\* two threads are handed the object and call obj.get_command()
Fork ==
    /\ pc = "built"
    /\ calls = 0
    /\ Val(obj).cls \in SharedCommands
    /\ Representable(Val(obj))
    /\ pc' = "threads"
    /\ thr' = [t \in Threads |-> Entered]
    /\ UNCHANGED <<obj, ctor, ret, first, calls, wire, fld, inbox>>

\* the thread that holds the interpreter runs up to its next switch point
ThreadStep ==
    /\ pc = "threads"
    /\ \E t \in Threads :
           /\ thr[t].at # "done"
           /\ LET next == get_command_step(Val(obj), thr[t])
              IN /\ obj' = Some(next.self)
                 /\ thr' = [thr EXCEPT ![t] = next.local]
    /\ UNCHANGED <<pc, ctor, ret, first, calls, wire, fld, inbox>>

------------------------------------------------------------------------
\* cls(payload): the field object, or the exception __init__ raises
Decoded(cls, payload) ==
    LET r == Field(cls, payload)
    IN /\ wire' = payload
       /\ IF IsRaise(r)
          THEN pc' = "rejected" /\ fld' = None /\ ret' = r
          ELSE pc' = "decoded" /\ fld' = Some(r) /\ ret' = ret

\* a payload arrives and the field of its tag is constructed from it
Decode ==
    /\ pc = "idle"
    /\ \E cls \in FieldClasses : \E payload \in Payloads(cls) :
           Decoded(cls, payload)
    /\ UNCHANGED <<obj, ctor, first, calls, thr, inbox>>

\* class attribute CODE of the field classes, as ASCII; FairlightHeadphonesField
\* and FairlightSoloField set none
FieldCODE == [
    ColorGeneratorField |-> <<67, 111, 108, 86>>,
    DkeyPropertiesField |-> <<68, 115, 107, 80>>,
    TransitionDipField |-> <<84, 68, 112, 80>>,
    TransitionWipeField |-> <<84, 87, 112, 80>>,
    TransitionDveField |-> <<84, 68, 118, 80>>,
    KeyPropertiesDveField |-> <<75, 101, 68, 86>>,
    KeyPropertiesLumaField |-> <<75, 101, 76, 109>>,
    KeyPropertiesAdvancedChromaField |-> <<75, 65, 67, 107>>,
    KeyPropertiesAdvancedChromaColorpickerField |-> <<75, 65, 67, 67>>,
    MultiviewerPropertiesField |-> <<77, 118, 80, 114>>,
    InitCompleteField |-> <<73, 110, 67, 109>>,
    VideoModeField |-> <<86, 105, 100, 77>>,
    VideoModeCapabilityField |-> <<95, 86, 77, 67>>,
    TallyIndexField |-> <<84, 108, 73, 110>>,
    TallySourceField |-> <<84, 108, 83, 114>>,
    AudioMixerTallyField |-> <<65, 77, 84, 108>>,
    MediaplayerFileInfoField |-> <<77, 80, 102, 101>>,
    FileTransferDataField |-> <<70, 84, 68, 97>>,
    MacroPropertiesField |-> <<77, 80, 114, 112>>,
    AudioMeterLevelsField |-> <<65, 77, 76, 118>>,
    FileTransferErrorField |-> <<70, 84, 68, 69>>,
    FileTransferDataCompleteField |-> <<70, 84, 68, 67>>,
    FileTransferContinueDataField |-> <<70, 84, 67, 68>>,
    FairlightMeterLevelsField |-> <<70, 77, 76, 118>>,
    FairlightMasterLevelsField |-> <<70, 68, 76, 118>>,
    AutoInputVideoModeField |-> <<65, 105, 86, 77>>,
    TransferCompleteField |-> <<42, 88, 70, 67>>,
    AudioMixerInputPropertiesField |-> <<65, 77, 73, 80>>,
    AudioInputField |-> <<65, 77, 73, 80>> ]

\* FieldBase.make_packet
make_packet(self) ==
    IF self.cls \notin DOMAIN FieldCODE THEN Raise("AttributeError")
    ELSE LET header == struct_pack(<<pack_H(Len(self.raw) + 8), pack_x(2),
                                     pack_s(4, FieldCODE[self.cls])>>)
         IN IF header.ok THEN Bytes(header.b \o self.raw) ELSE Raise("struct.error")

\* make_packet() of a decoded field is called
MakePacket ==
    /\ pc = "decoded"
    /\ ret' = make_packet(Val(fld))
    /\ pc' = "packed"
    /\ UNCHANGED <<obj, ctor, first, calls, wire, fld, thr, inbox>>

\* longest stream of tag and payload pairs
MaxStream == 2

\* the pairs of a stream: VidM, AiVM and AMIP with a payload of their layout,
\* the tag zzzz, and FMHP, the tag of a class that sets no CODE
Pairs ==
    {[tag |-> <<86, 105, 100, 77>>, payload |-> <<5, 0, 0, 0>>],
     [tag |-> <<65, 105, 86, 77>>, payload |-> <<1, 0, 0, 0>>],
     [tag |-> <<65, 77, 73, 80>>, payload |-> Ramp(16, 1)],
     [tag |-> <<122, 122, 122, 122>>, payload |-> <<1, 2>>],
     [tag |-> <<70, 77, 72, 80>>, payload |-> Zeros(32)]}

Streams == UNION {[1..n -> Pairs] : n \in 1..MaxStream}

\* the field classes of the catalog that declare a tag
Dispatched(tag) == {cls \in DOMAIN FieldCODE : FieldCODE[cls] = tag}

\* the result for a tag that no class declares
Unknown(tag, payload) == [cls |-> "unknown", tag |-> tag, raw |-> payload]

\* decode(tag, payload) with a lookup that fails for a tag it does not hold
decode_strict(tag, payload, cls) ==
    IF Dispatched(tag) = {} THEN Raise("KeyError") ELSE Field(cls, payload)

\* decode(tag, payload): the field of a class that declares the tag, or the
\* unknown result
decode(tag, payload, cls) ==
    IF Dispatched(tag) = {} THEN Unknown(tag, payload) ELSE Field(cls, payload)

\* the transport hands over a stream it has split into pairs
Receive ==
    /\ pc = "idle"
    /\ \E stream \in Streams : inbox' = [pairs |-> stream, results |-> <<>>]
    /\ pc' = "stream"
    /\ UNCHANGED <<obj, ctor, ret, first, calls, wire, fld, thr>>

\* the next pair of the stream is decoded; an exception ends the decoding
DecodePair ==
    /\ pc = "stream"
    /\ Len(inbox.results) < Len(inbox.pairs)
    /\ LET pair == inbox.pairs[Len(inbox.results) + 1]
       IN \E cls \in (IF Dispatched(pair.tag) = {} THEN {"unknown"}
                      ELSE Dispatched(pair.tag)) :
              LET r == decode(pair.tag, pair.payload, cls)
              IN /\ inbox' = [inbox EXCEPT !.results = Append(@, r)]
                 /\ pc' = IF IsRaise(r) THEN "aborted" ELSE "stream"
    /\ UNCHANGED <<obj, ctor, ret, first, calls, wire, fld, thr>>

\* the label of a decoded video mode, or the labels of a decoded list of
\* video modes, is asked for
GetLabel ==
    /\ pc = "decoded"
    /\ Val(fld).cls \in {"VideoModeField", "VideoModeCapabilityField"}
    /\ ret' = IF Val(fld).cls = "VideoModeField"
              THEN VideoModeField_get_label(Val(fld))
              ELSE VideoModeCapabilityField_repr(Val(fld))
    /\ pc' = "labelled"
    /\ UNCHANGED <<obj, ctor, first, calls, wire, fld, thr, inbox>>

\* the names given to _make_command: of 0, 1, 3, 4 and 5 characters, and of 3
\* and 4 characters with one that takes two bytes
TagNames ==
    {<<>>, <<65>>, <<65, 66, 67>>, <<65, 66, 67, 68>>, <<65, 66, 67, 68, 69>>,
     <<233, 66, 67>>, <<233, 66, 67, 68>>}

\* Command()._make_command(name, data)
MakeCommand ==
    /\ pc = "idle"
    /\ \E name \in TagNames, n \in 0..MaxData :
           /\ ctor' = Some([cls |-> "Command", name |-> name, data |-> Ramp(n, 1)])
           /\ ret' = _make_command(name, [ok |-> TRUE, b |-> Ramp(n, 1)])
    /\ pc' = "made"
    /\ UNCHANGED <<obj, first, calls, wire, fld, thr, inbox>>

\* the command of the same tag, constructed from the attributes of a field
Rebuilt(field) ==
    CASE field.cls = "FileTransferDataField" ->
             [cls |-> "TransferDataCommand", transfer |-> field.transfer,
              data |-> field.data]
      [] field.cls = "AutoInputVideoModeField" ->
             [cls |-> "AutoInputVideoModeCommand", enable |-> field.enabled]
      [] field.cls = "TransferCompleteField" ->
             [cls |-> "TransferCompleteCommand", store |-> field.store,
              slot |-> field.slot, upload |-> field.upload]

BothDirections ==
    {"FileTransferDataField", "AutoInputVideoModeField", "TransferCompleteField"}

\* the command of the tag of a decoded field is constructed from the field
Rebuild ==
    /\ pc = "decoded"
    /\ Val(fld).cls \in BothDirections
    /\ Built(Rebuilt(Val(fld)))

------------------------------------------------------------------------
\* What the docstrings of the command classes document.

\* the tag each class documents: "Implementation of the `DCut` command", as ASCII
CODE ==
  [ CutCommand |-> <<68, 67, 117, 116>>,
    AutoCommand |-> <<68, 65, 117, 116>>,
    ProgramInputCommand |-> <<67, 80, 103, 73>>,
    PreviewInputCommand |-> <<67, 80, 118, 73>>,
    AuxSourceCommand |-> <<67, 65, 117, 83>>,
    TransitionPositionCommand |-> <<67, 84, 80, 115>>,
    TransitionSettingsCommand |-> <<67, 84, 84, 112>>,
    TransitionPreviewCommand |-> <<67, 84, 80, 114>>,
    ColorGeneratorCommand |-> <<67, 67, 108, 86>>,
    FadeToBlackCommand |-> <<70, 116, 98, 65>>,
    FadeToBlackConfigCommand |-> <<70, 116, 98, 67>>,
    CaptureStillCommand |-> <<67, 97, 112, 116>>,
    MediaplayerSelectCommand |-> <<77, 80, 83, 83>>,
    DkeyOnairCommand |-> <<67, 68, 115, 76>>,
    DkeyTieCommand |-> <<67, 68, 115, 84>>,
    DkeyAutoCommand |-> <<68, 68, 115, 65>>,
    DkeyRateCommand |-> <<67, 68, 115, 82>>,
    DkeySetFillCommand |-> <<67, 68, 115, 70>>,
    DkeySetKeyCommand |-> <<67, 68, 115, 67>>,
    DkeyGainCommand |-> <<67, 68, 115, 71>>,
    DkeyMaskCommand |-> <<67, 68, 115, 77>>,
    MixSettingsCommand |-> <<67, 84, 77, 120>>,
    DipSettingsCommand |-> <<67, 84, 68, 112>>,
    WipeSettingsCommand |-> <<67, 84, 87, 112>>,
    DveSettingsCommand |-> <<67, 84, 68, 118>>,
    AudioMasterPropertiesCommand |-> <<67, 65, 77, 77>>,
    AudioMonitorPropertiesCommand |-> <<67, 65, 77, 109>>,
    AudioInputCommand |-> <<67, 65, 77, 73>>,
    FairlightMasterPropertiesCommand |-> <<67, 70, 77, 80>>,
    FairlightStripPropertiesCommand |-> <<67, 70, 83, 80>>,
    KeyOnAirCommand |-> <<67, 75, 79, 110>>,
    KeyFillCommand |-> <<67, 75, 101, 70>>,
    KeyCutCommand |-> <<67, 75, 101, 67>>,
    KeyTypeCommand |-> <<67, 75, 84, 112>>,
    KeyPropertiesDveCommand |-> <<67, 75, 68, 86>>,
    KeyPropertiesAdvancedChromaColorpickerCommand |-> <<67, 65, 67, 67>>,
    KeyPropertiesAdvancedChromaCommand |-> <<67, 65, 67, 75>>,
    KeyPropertiesLumaCommand |-> <<67, 75, 76, 109>>,
    KeyerKeyframeSetCommand |-> <<83, 70, 75, 70>>,
    KeyerKeyframeRunCommand |-> <<82, 70, 108, 75>>,
    RecorderStatusCommand |-> <<82, 99, 84, 77>>,
    RecordingSettingsSetCommand |-> <<67, 82, 77, 83>>,
    StreamingServiceSetCommand |-> <<67, 82, 83, 83>>,
    StreamingStatusSetCommand |-> <<83, 116, 114, 82>>,
    MultiviewPropertiesCommand |-> <<67, 77, 118, 80>>,
    MultiviewInputCommand |-> <<67, 77, 118, 73>>,
    LockCommand |-> <<76, 79, 67, 75>>,
    PartialLockCommand |-> <<80, 76, 67, 75>>,
    TransferDownloadRequestCommand |-> <<70, 84, 83, 85>>,
    TransferUploadRequestCommand |-> <<70, 84, 83, 68>>,
    TransferDataCommand |-> <<70, 84, 68, 97>>,
    TransferFileDataCommand |-> <<70, 84, 70, 68>>,
    TransferAckCommand |-> <<70, 84, 85, 65>>,
    SendAudioLevelsCommand |-> <<83, 65, 76, 78>>,
    SendFairlightLevelsCommand |-> <<83, 70, 76, 78>>,
    CameraControlCommand |-> <<67, 67, 109, 100>>,
    VideoModeCommand |-> <<67, 86, 100, 77>>,
    AutoInputVideoModeCommand |-> <<65, 105, 86, 77>>,
    InputPropertiesCommand |-> <<67, 73, 110, 76>>,
    TransferCompleteCommand |-> <<42, 88, 70, 67>> ]

\* the mask bit the layout tables give each optional parameter, in constructor
\* order; a class whose docstring has no bit table numbers them in that order
DocBit ==
  [ TransitionSettingsCommand |-> <<0, 1>>,
    ColorGeneratorCommand |-> <<0, 1, 2>>,
    DkeyGainCommand |-> <<0, 1, 2, 3>>,
    DkeyMaskCommand |-> <<0, 1, 2, 3, 4>>,
    DipSettingsCommand |-> <<0, 1>>,
    WipeSettingsCommand |-> <<0, 1, 2, 3, 4, 5, 6, 7, 8, 9>>,
    DveSettingsCommand |-> <<0, 2, 3, 4, 5, 6, 7, 8, 9, 10, 11>>,
    AudioMasterPropertiesCommand |-> <<0, 2>>,
    AudioMonitorPropertiesCommand |-> <<0, 1, 2, 3, 4, 5, 6>>,
    FairlightMasterPropertiesCommand |-> <<1, 2, 3, 4, 0>>,
    FairlightStripPropertiesCommand |-> <<0, 1, 4, 3, 5, 6, 7, 8>>,
    KeyTypeCommand |-> <<0, 1>>,
    KeyPropertiesDveCommand |-> <<0, 1, 2, 3, 4, 5, 6, 7, 8, 9, 10, 11, 12, 13, 14,
                                  15, 16, 17, 18, 19, 20, 21, 22, 23, 24, 25>>,
    KeyPropertiesAdvancedChromaColorpickerCommand |-> <<0, 1, 2, 3, 4, 5, 6, 7>>,
    KeyPropertiesAdvancedChromaCommand |-> <<0, 1, 2, 3, 4, 5, 6, 7, 8, 9, 10>>,
    KeyPropertiesLumaCommand |-> <<0, 1, 2, 3>>,
    RecordingSettingsSetCommand |-> <<0, 1, 2, 3>>,
    MultiviewPropertiesCommand |-> <<0, 1>>,
    InputPropertiesCommand |-> <<0, 1, 2>> ]

\* the commands that carry a mask without such a table for every parameter
RemainingMaskCommands ==
    {"MediaplayerSelectCommand", "AudioInputCommand", "KeyerKeyframeRunCommand",
     "StreamingServiceSetCommand"}

PartialUpdateCommands == DOMAIN DocBit \cup RemainingMaskCommands

\* bytes of the mask word at offset 0 of the payload (u8, u16 or u32 in the
\* layout table)
MaskWidth(cls) ==
    CASE cls = "KeyPropertiesDveCommand" -> 4
      [] cls \in {"WipeSettingsCommand", "DveSettingsCommand",
                  "FairlightStripPropertiesCommand",
                  "KeyPropertiesAdvancedChromaCommand"} -> 2
      [] OTHER -> 1

------------------------------------------------------------------------
\* Reading a state.

HeaderLen == 8

\* a get_command call has returned a frame
Framed == pc = "built" /\ calls > 0 /\ ret.kind = "bytes"

Payload(frame) == SubSeq(frame, HeaderLen + 1, Len(frame))

Mask(frame, cls) == Unsigned(Payload(frame), 0, MaskWidth(cls))

\* positions of the optional parameters the object was given
Supplied(self) ==
    {k \in DOMAIN Sig[self.cls].opt : ~IsNone(self[Sig[self.cls].opt[k][1]])}

RECURSIVE SumBits(_)
SumBits(S) ==
    IF S = {} THEN 0
    ELSE LET k == CHOOSE k \in S : TRUE IN Pow2(k) + SumBits(S \ {k})

RECURSIVE PopCount(_)
PopCount(m) == IF m = 0 THEN 0 ELSE (m % 2) + PopCount(m \div 2)

\* the value is one the parameter's wire type can hold
Fits(type, v) ==
    CASE type = "u8" -> v \in 0..255
      [] type = "u16" -> v \in 0..65535
      [] type = "i16" -> v \in (0 - 32768)..32767
      [] type = "u32" -> v >= 0
      [] type = "bool" -> v \in {0, 1}
      [] type = "channel" -> v \in {0 - 1, 0}
      [] type = "run_to" -> v \in DOMAIN run_to_lut
      [] type = "hue" -> v >= 0 /\ v < 3600 * HueDen
      [] type = "unit" -> v >= 0 /\ v <= UnitDen
      [] OTHER -> TRUE

\* every argument of the call is in range
InRange(args) ==
    LET req == Sig[args.cls].req
        opt == Sig[args.cls].opt
    IN /\ \A k \in DOMAIN req : Fits(req[k][2], args[req[k][1]])
       /\ \A k \in DOMAIN opt :
              ~IsNone(args[opt[k][1]]) => Fits(opt[k][2], Val(args[opt[k][1]]))

------------------------------------------------------------------------
\* The device between a command and the field it is observed through.

\* where the wire bytes of each optional parameter lie: <<offset in the
\* command payload, bytes, offset in the payload of the paired field, the
\* attribute the field decodes them to>>, in the order of Sig[cls].opt
Slots ==
    [ColorGeneratorCommand |->
       <<<<2, 2, 2, "hue">>, <<4, 2, 4, "saturation">>, <<6, 2, 6, "luma">>>>,
     DkeyGainCommand |->
       <<<<2, 1, 3, "premultiplied">>, <<4, 2, 4, "clip">>,
         <<6, 2, 6, "gain">>, <<8, 1, 8, "invert_key">>>>,
     DkeyMaskCommand |->
       <<<<2, 1, 9, "masked">>, <<4, 2, 10, "top">>, <<6, 2, 12, "bottom">>,
         <<8, 2, 14, "left">>, <<10, 2, 16, "right">>>>,
     DipSettingsCommand |->
       <<<<2, 1, 1, "rate">>, <<4, 2, 2, "source">>>>,
     WipeSettingsCommand |->
       <<<<3, 1, 1, "rate">>, <<4, 1, 2, "pattern">>, <<6, 2, 4, "width">>,
         <<8, 2, 6, "source">>, <<10, 2, 8, "symmetry">>,
         <<12, 2, 10, "softness">>, <<14, 2, 12, "positionx">>,
         <<16, 2, 14, "positiony">>, <<18, 1, 16, "reverse">>,
         <<19, 1, 17, "flipflop">>>>,
     DveSettingsCommand |->
       <<<<3, 1, 1, "rate">>, <<5, 1, 3, "style">>,
         <<6, 2, 4, "fill_source">>, <<8, 2, 6, "key_source">>,
         <<10, 1, 8, "key_enable">>, <<11, 1, 9, "key_premultiplied">>,
         <<12, 2, 10, "key_clip">>, <<14, 2, 12, "key_gain">>,
         <<16, 1, 14, "key_invert">>, <<17, 1, 15, "reverse">>,
         <<18, 1, 16, "flipflop">>>>,
     KeyPropertiesLumaCommand |->
       <<<<3, 1, 2, "premultiplied">>, <<4, 2, 4, "clip">>,
         <<6, 2, 6, "gain">>, <<8, 1, 8, "key_inverted">>>>,
     KeyPropertiesAdvancedChromaCommand |->
       <<<<4, 2, 2, "foreground">>, <<6, 2, 4, "background">>,
         <<8, 2, 6, "key_edge">>, <<10, 2, 8, "spill_suppress">>,
         <<12, 2, 10, "flare_suppress">>, <<14, 2, 12, "brightness">>,
         <<16, 2, 14, "contrast">>, <<18, 2, 16, "saturation">>,
         <<20, 2, 18, "red">>, <<22, 2, 20, "green">>,
         <<24, 2, 22, "blue">>>>,
     MultiviewPropertiesCommand |->
       <<<<2, 1, 1, "layout">>, <<3, 1, 2, "flip">>>>,
     KeyPropertiesDveCommand |->
       <<<<8, 4, 4, "size_x">>, <<12, 4, 8, "size_y">>,
         <<16, 4, 12, "pos_x">>, <<20, 4, 16, "pos_y">>,
         <<24, 4, 20, "rotation">>, <<28, 1, 24, "border_enabled">>,
         <<29, 1, 25, "shadow_enabled">>, <<30, 1, 26, "border_bevel">>,
         <<32, 2, 28, "border_outer_width">>,
         <<34, 2, 30, "border_inner_width">>,
         <<36, 1, 32, "border_outer_softness">>,
         <<37, 1, 33, "border_inner_softness">>,
         <<38, 1, 34, "border_bevel_softness">>,
         <<39, 1, 35, "border_bevel_position">>,
         <<40, 1, 36, "border_opacity">>, <<42, 2, 38, "border_hue">>,
         <<44, 2, 40, "border_saturation">>, <<46, 2, 42, "border_luma">>,
         <<48, 2, 44, "light_angle">>, <<50, 1, 46, "light_altitude">>,
         <<51, 1, 47, "mask_enabled">>, <<52, 2, 48, "mask_top">>,
         <<54, 2, 50, "mask_bottom">>, <<56, 2, 52, "mask_left">>,
         <<58, 2, 54, "mask_right">>, <<60, 1, 56, "rate">>>>,
     KeyPropertiesAdvancedChromaColorpickerCommand |->
       <<<<3, 1, 2, "cursor">>, <<4, 1, 3, "preview">>, <<6, 2, 4, "x">>,
         <<8, 2, 6, "y">>, <<10, 2, 8, "size">>, <<12, 2, 10, "Y">>,
         <<14, 2, 12, "Cb">>, <<16, 2, 14, "Cr">>>>]

\* the field a command is observed through
Paired ==
    [ColorGeneratorCommand |->
         "ColorGeneratorField",
     DkeyGainCommand |->
         "DkeyPropertiesField",
     DkeyMaskCommand |->
         "DkeyPropertiesField",
     DipSettingsCommand |->
         "TransitionDipField",
     WipeSettingsCommand |->
         "TransitionWipeField",
     DveSettingsCommand |->
         "TransitionDveField",
     KeyPropertiesLumaCommand |->
         "KeyPropertiesLumaField",
     KeyPropertiesAdvancedChromaCommand |->
         "KeyPropertiesAdvancedChromaField",
     MultiviewPropertiesCommand |->
         "MultiviewerPropertiesField",
     KeyPropertiesDveCommand |->
         "KeyPropertiesDveField",
     KeyPropertiesAdvancedChromaColorpickerCommand |->
         "KeyPropertiesAdvancedChromaColorpickerField"]

\* what the field of cls held before the command arrived
PriorPayloads(cls) == {Zeros(FixedSize[cls]), Ramp(FixedSize[cls], 1)}

\* the optional parameters of the command whose mask bit the frame has set
Masked(frame, cls) ==
    {k \in DOMAIN Slots[cls] : BitSet(Mask(frame, cls), DocBit[cls][k])}

\* the payload of the paired field once the device has copied the wire bytes
\* of every masked parameter of the frame into that parameter's slot of prior
Applied(prior, frame, cls) ==
    LET payload == Payload(frame)
        slots == Slots[cls]
        masked == Masked(frame, cls)
        \* the 0-based offset in the command payload that byte i of the field
        \* payload is copied from, -1 where no masked slot covers it
        from(i) ==
            LET over == {k \in masked :
                            i >= slots[k][3] /\ i < slots[k][3] + slots[k][2]}
            IN IF over = {} THEN 0 - 1
               ELSE LET k == CHOOSE j \in over : TRUE
                    IN slots[k][1] + (i - slots[k][3])
    IN [i \in 1..Len(prior) |->
           IF from(i - 1) >= 0 THEN payload[from(i - 1) + 1] ELSE prior[i]]

\* the device takes the frame of a command sent once and updates the payload
\* of the paired field
DeviceApply ==
    /\ pc = "built"
    /\ calls = 1
    /\ ret.kind = "bytes"
    /\ Val(obj).cls \in DOMAIN Paired
    /\ \E prior \in PriorPayloads(Paired[Val(obj).cls]) :
           wire' = Applied(prior, ret.val, Val(obj).cls)
    /\ pc' = "applied"
    /\ UNCHANGED <<obj, ctor, ret, first, calls, fld, thr, inbox>>

\* the updated payload arrives and the paired field is constructed from it
DecodeApplied ==
    /\ pc = "applied"
    /\ Decoded(Paired[Val(obj).cls], wire)
    /\ UNCHANGED <<obj, ctor, first, calls, thr, inbox>>

Next ==
    \/ Construct
    \/ ConstructCamera
    \/ ConstructHue
    \/ ConstructMixOption
    \/ ConstructDownload
    \/ GetCommand
    \/ MakeCommand
    \/ Fork
    \/ ThreadStep
    \/ Decode
    \/ Receive
    \/ DecodePair
    \/ Rebuild
    \/ MakePacket
    \/ GetLabel
    \/ DeviceApply
    \/ DecodeApplied

Spec == Init /\ [][Next]_vars

------------------------------------------------------------------------
\* C1: every frame get_command returns is a big-endian u16 equal to the
\* payload length plus 8, two zero bytes, the class's documented 4-byte tag
\* and then the payload, so the length field equals the number of bytes of the
\* frame; for the variable-length FTDa the payload is the 4-byte head plus the
\* data that was given, for CCmd the 16-byte head plus the packed elements.
FrameEnvelope ==
    Framed =>
        LET frame == ret.val
            self == Val(obj)
        IN /\ Len(frame) >= HeaderLen
           /\ Unsigned(frame, 0, 2) = Len(Payload(frame)) + 8
           /\ Unsigned(frame, 0, 2) = Len(frame)
           /\ frame[3] = 0 /\ frame[4] = 0
           /\ \A k \in 5..8 : frame[k] \in 32..126
           /\ self.cls \in DOMAIN CODE => SubSeq(frame, 5, 8) = CODE[self.cls]
           /\ self.cls = "TransferDataCommand" =>
                  Len(Payload(frame)) = 4 + Len(self.data)
           /\ self.cls = "CameraControlCommand" =>
                  Len(Payload(frame)) >= (IF IsNone(self.data) THEN 16 ELSE 24)

\* a frame of FTDa that carries the longest data was returned
FrameEnvelopeWitness ==
    /\ Framed
    /\ Val(obj).cls = "TransferDataCommand"
    /\ Len(Val(obj).data) = MaxData
    /\ Len(ret.val) = 12 + MaxData

\* C2: for each command with a documented mask table the mask word is the sum
\* of the documented bits of the supplied parameters: the bit of a parameter is
\* set iff the parameter is not None (0 and False count as supplied), and every
\* other bit is clear.
MaskBitsDocumented ==
    (Framed /\ Val(obj).cls \in DOMAIN DocBit) =>
        LET self == Val(obj)
            bits == DocBit[self.cls]
        IN /\ DOMAIN bits = DOMAIN Sig[self.cls].opt
           /\ \A j, k \in DOMAIN bits : j # k => bits[j] # bits[k]
           /\ Mask(ret.val, self.cls) = SumBits({bits[k] : k \in Supplied(self)})

\* DveSettingsCommand with key_enable=False and flipflop=False supplied, the
\* rest omitted, was encoded
MaskBitsDocumentedWitness ==
    /\ Framed
    /\ Val(obj).cls = "DveSettingsCommand"
    /\ Supplied(Val(obj)) = {5, 11}
    /\ Val(obj).key_enable = Some(0)
    /\ Val(obj).flipflop = Some(0)
    /\ Mask(ret.val, "DveSettingsCommand") = Pow2(5) + Pow2(11)

\* the frame the object would give with the optional parameter at position k
\* set to 0, False or the empty string
WithZero(self, k) ==
    LET p == Sig[self.cls].opt[k]
    IN get_command([self EXCEPT ![p[1]] = Some(ZeroVal(p[2]))])

\* the payload after the mask word
AfterMask(frame, cls) ==
    SubSeq(Payload(frame), MaskWidth(cls) + 1, Len(Payload(frame)))

\* C3: for every partial-update command built from arguments in range, the
\* first get_command call gives a frame in which the bytes of each omitted
\* optional parameter are the bytes of 0, False or the empty string (the
\* payload after the mask is the one the command gives with that parameter
\* supplied as such), and with only the k-th optional parameter supplied the
\* mask has exactly that parameter's bit set.
OmittedAreDefault ==
    (/\ pc = "built" /\ calls = 1
     /\ Val(obj).cls \in PartialUpdateCommands
     /\ InRange(Val(ctor))) =>
        LET self == New(Val(ctor))
            opt == Sig[self.cls].opt
        IN /\ ret.kind = "bytes"
           /\ \A k \in DOMAIN opt \ Supplied(self) :
                  /\ WithZero(self, k).kind = "bytes"
                  /\ AfterMask(WithZero(self, k).val, self.cls)
                         = AfterMask(ret.val, self.cls)
           /\ \A k \in DOMAIN opt :
                  Supplied(self) = {k} =>
                      IF self.cls \in DOMAIN DocBit
                      THEN Mask(ret.val, self.cls) = Pow2(DocBit[self.cls][k])
                      ELSE PopCount(Mask(ret.val, self.cls)) = 1

\* C4: for MPSS, CAMI, RFlK and CRSS built from arguments in range, the first
\* get_command call gives a frame whose mask has one bit set for each supplied
\* optional parameter and no other bit.
RemainingMaskRule ==
    (/\ pc = "built" /\ calls = 1
     /\ Val(obj).cls \in RemainingMaskCommands
     /\ InRange(Val(ctor))) =>
        LET self == New(Val(ctor))
        IN /\ ret.kind = "bytes"
           /\ PopCount(Mask(ret.val, self.cls)) = Cardinality(Supplied(self))

\* C5: encoding is pure: after any number of get_command calls the object has
\* the attributes the constructor gave it, and every call returned what the
\* first call returned.
EncodingIsPure ==
    (pc = "built" /\ calls > 0) =>
        /\ Val(obj) = New(Val(ctor))
        /\ ret = first

------------------------------------------------------------------------
\* Decoding

VariableLength ==
    {"TallyIndexField", "TallySourceField", "AudioMixerTallyField",
     "MacroPropertiesField", "MediaplayerFileInfoField",
     "FileTransferDataField", "AudioMeterLevelsField",
     "VideoModeCapabilityField"}

\* the u16 a payload announces at offset off, 0 where the payload ends before it
Announced(payload, off) ==
    IF Len(payload) >= off + 2 THEN Unsigned(payload, off, 2) ELSE 0

\* the count or length the payload of a variable-length field declares
DeclaredCount(cls, payload) ==
    CASE cls = "FileTransferDataField" -> Announced(payload, 2)
      [] cls = "MacroPropertiesField" ->
             Announced(payload, 4) + Announced(payload, 6)
      [] cls = "MediaplayerFileInfoField" ->
             IF Len(payload) >= 24 THEN payload[24] ELSE 0
      [] OTHER -> Announced(payload, 0)

\* the bytes the documented layout of cls takes, those announced by the
\* payload's own count or length included
Needed(cls, payload) ==
    LET n == DeclaredCount(cls, payload)
    IN CASE cls \in DOMAIN FixedSize -> FixedSize[cls]
         [] cls = "TallyIndexField" -> 2 + n
         [] cls \in {"TallySourceField", "AudioMixerTallyField"} -> 2 + 3 * n
         [] cls = "MediaplayerFileInfoField" -> 24 + n
         [] cls = "FileTransferDataField" -> 4 + n
         [] cls = "MacroPropertiesField" -> 8 + n
         [] cls = "AudioMeterLevelsField" ->
                ((36 + 2 * n + 3) \div 4) * 4 + 16 * n
         [] cls = "VideoModeCapabilityField" -> 4 + 13 * n

\* C6: no field object comes out of a payload with fewer bytes than the layout
\* of its type needs, the bytes announced by a count or length inside the
\* payload included: constructing the field from such a payload raises.
TruncatedPayloadRaises ==
    pc = "decoded" => Len(wire) >= Needed(Val(fld).cls, wire)

\* the elements the decoded collection of a variable-length field holds
ElementCount(field) ==
    CASE field.cls = "TallyIndexField" -> Len(field.tally)
      [] field.cls \in {"TallySourceField", "AudioMixerTallyField"} ->
             Cardinality(DOMAIN field.tally)
      [] field.cls = "MacroPropertiesField" ->
             Len(field.name) + Len(field.description)
      [] field.cls = "MediaplayerFileInfoField" -> Len(field.name)
      [] field.cls = "FileTransferDataField" -> Len(field.data)
      [] field.cls = "AudioMeterLevelsField" -> Cardinality(DOMAIN field.input)
      [] field.cls = "VideoModeCapabilityField" -> Len(field.modes)

\* what decoding gave: the attributes but the kept payload
Result(field) == [a \in DOMAIN field \ {"raw"} |-> field[a]]

\* C7: a decoded variable-length field holds exactly as many elements as the
\* payload declares, and the bytes behind the declared region do not change
\* what is decoded: the declared region alone decodes to the same attributes.
DeclaredCountDecoded ==
    (pc = "decoded" /\ Val(fld).cls \in VariableLength) =>
        LET cls == Val(fld).cls
            region == Needed(cls, wire)
        IN /\ ElementCount(Val(fld)) = DeclaredCount(cls, wire)
           /\ Len(wire) > region =>
                  LET alone == Field(cls, SubSeq(wire, 1, region))
                  IN ~IsRaise(alone) /\ Result(alone) = Result(Val(fld))

------------------------------------------------------------------------
\* Round trip

\* the commands whose parameters come back with the same scaling
RoundTripCommands ==
    {"ColorGeneratorCommand", "DkeyGainCommand", "DkeyMaskCommand",
     "DipSettingsCommand", "WipeSettingsCommand", "DveSettingsCommand",
     "KeyPropertiesLumaCommand", "KeyPropertiesAdvancedChromaCommand",
     "MultiviewPropertiesCommand"}

\* the attributes a field decodes to a fraction
Fractional(cls) ==
    CASE cls = "ColorGeneratorField" -> {"hue", "saturation", "luma"}
      [] cls = "KeyPropertiesDveField" ->
             {"border_hue", "border_saturation", "border_luma"}
      [] cls = "KeyPropertiesAdvancedChromaColorpickerField" -> {"Y", "Cb", "Cr"}
      [] OTHER -> {}

\* the value seen on the field is the value given to the constructor: equal,
\* and for a hue, saturation or luma given as a fraction no further from it
\* than one unit of the wire
SameValue(type, given, seen, fraction) ==
    LET den == IF type = "hue" THEN HueDen ELSE UnitDen
        diff == seen.num * den - given * seen.den
    IN IF type \in {"hue", "unit"}
       THEN fraction /\ diff <= den /\ 0 - diff <= den
       ELSE IF fraction THEN seen.num = given * seen.den
       ELSE seen = given

\* parameter k of the command the field was updated from is seen on the field
Observed(k) ==
    LET args == Val(ctor)
        opt == Sig[args.cls].opt
        attr == Slots[args.cls][k][4]
    IN SameValue(opt[k][2], Val(args[opt[k][1]]), Val(fld)[attr],
                 attr \in Fractional(Paired[args.cls]))

\* the paired field has been decoded from the payload the device updated
RoundTripDone(commands) ==
    /\ pc \in {"decoded", "rejected"}
    /\ ~IsNone(ctor)
    /\ Val(ctor).cls \in commands
    /\ InRange(Val(ctor))

ColourParameters ==
    {"border_hue", "border_saturation", "border_luma", "Y", "Cb", "Cr"}

\* C9: for CKDV and CACC built from arguments in range, once the device has
\* copied the wire bytes unchanged, the paired field shows for a masked border
\* hue, saturation or luma, and for a masked colour-picker Y, Cb or Cr, the
\* value given to the constructor.
KeyerColourRoundTrip ==
    RoundTripDone({"KeyPropertiesDveCommand",
                   "KeyPropertiesAdvancedChromaColorpickerCommand"}) =>
        /\ pc = "decoded"
        /\ \A k \in Masked(ret.val, Val(ctor).cls) :
               Sig[Val(ctor).cls].opt[k][1] \in ColourParameters => Observed(k)

\* C10: MediaplayerSelectCommand with both still and clip, or with neither,
\* raises ValueError and leaves no object; with exactly one of them (index 0
\* included) the object is built, and from arguments in range its frame carries
\* source type 1 for a still, 2 for a clip.
MediaplayerSelectExactlyOne ==
    (~IsNone(ctor) /\ Val(ctor).cls = "MediaplayerSelectCommand") =>
        LET args == Val(ctor)
        IN IF IsNone(args.still) = IsNone(args.clip)
           THEN pc = "failed" /\ obj = None /\ ret = Raise("ValueError")
           ELSE /\ pc = "built"
                /\ Val(obj).still = args.still /\ Val(obj).clip = args.clip
                /\ (calls > 0 /\ InRange(args)) =>
                       /\ ret.kind = "bytes"
                       /\ Payload(ret.val)[3] = (IF IsNone(args.clip) THEN 1 ELSE 2)

\* MediaplayerSelectCommand(0, still=0) was built and encoded as a still
MediaplayerSelectStillZero ==
    /\ Framed
    /\ Val(obj).cls = "MediaplayerSelectCommand"
    /\ Val(obj).still = Some(0)
    /\ IsNone(Val(obj).clip)
    /\ Payload(ret.val)[3] = 1
    /\ Payload(ret.val)[4] = 0

------------------------------------------------------------------------
\* Streaming-service bitrate.

\* StreamingServiceSetCommand(...) was given exactly one of the two bitrates
OneBitrate(args) == IsNone(args.bitrate_min) # IsNone(args.bitrate_max)

\* C11: StreamingServiceSetCommand with exactly one of bitrate_min and
\* bitrate_max supplied raises at construction; with both or neither it is
\* constructed; and whatever its get_command() returns is a CRSS byte frame.
StreamingBitratePair ==
    (~IsNone(ctor) /\ Val(ctor).cls = "StreamingServiceSetCommand") =>
        /\ (pc = "failed") = OneBitrate(Val(ctor))
        /\ calls > 0 =>
               /\ ret.kind = "bytes"
               /\ SubSeq(ret.val, 5, 8) = <<67, 82, 83, 83>>

------------------------------------------------------------------------
\* Colour generator hue.

\* the hue field of a CClV frame
HueWire(frame) == Unsigned(Payload(frame), 2, 2)

\* get_command() of a colour generator that was given a hue has returned
HueEncoded ==
    /\ pc = "built"
    /\ calls > 0
    /\ Val(ctor).cls = "ColorGeneratorCommand"
    /\ ~IsNone(Val(ctor).hue)
    /\ Val(ctor).index \in 0..255

\* the hue given is the whole number h
WholeHue(h) == Val(Val(ctor).hue) = h * HueDen

\* a whole hue of 0..3599 is encoded as ten times itself
WholeHueTimesTen ==
    HueEncoded =>
        \A h \in 0..3599 :
            WholeHue(h) => ret.kind = "bytes" /\ HueWire(ret.val) = 10 * h

\* C12: ColorGeneratorCommand encodes a whole hue h of 0..3599 as the wire
\* integer 10*h, and emits no CClV frame whose hue field is outside 0..35990.
HueWireInRange ==
    /\ WholeHueTimesTen
    /\ (HueEncoded /\ ret.kind = "bytes") => HueWire(ret.val) \in 0..35990

------------------------------------------------------------------------
\* Download request.

\* get_command() of a download request built from arguments in range has
\* returned
DownloadRequested ==
    /\ pc = "built"
    /\ calls > 0
    /\ Val(ctor).cls = "TransferDownloadRequestCommand"
    /\ InRange(Val(ctor))

\* C13: in the FTSU payload the byte at offset 8 is 0x03 exactly when the
\* store is 0xFFFF and 0x00 for every other store; transfer, store and slot
\* are encoded unchanged; the three bytes after the flag are the same in every
\* request.
DownloadRequestFlag ==
    DownloadRequested =>
        LET args == Val(ctor)
            data == Payload(ret.val)
        IN /\ ret.kind = "bytes"
           /\ Len(data) = 12
           /\ (data[9] = 3) = (args.store = 65535)
           /\ args.store # 65535 => data[9] = 0
           /\ Unsigned(data, 0, 2) = args.transfer
           /\ Unsigned(data, 2, 2) = args.store
           /\ Unsigned(data, 4, 4) = args.slot
           /\ SubSeq(data, 10, 12) = <<208, 155, 140>>

\* a download of slot 2 of the macro store has been requested
DownloadRequestFlagWitness ==
    /\ DownloadRequested
    /\ Val(ctor).store = 65535
    /\ Val(ctor).slot = 2
    /\ ret.kind = "bytes"
    /\ Payload(ret.val)[9] = 3

------------------------------------------------------------------------
\* Concurrent encoding.

\* thread t has returned from get_command
Done(t) == pc = "threads" /\ thr[t].at = "done"

\* C17: when two threads call get_command() on one object at the same time,
\* under every interleaving each of them obtains the frame a single call on
\* the object as constructed returns.
ConcurrentEncodingAgrees ==
    \A t \in Threads : Done(t) => thr[t].ret = get_command(New(Val(ctor)))

------------------------------------------------------------------------
\* Audio levels of the legacy mixer.

\* the decoded level is d dB: the number itself, or 20 * log10 of a ratio,
\* which is 0 for the ratio 1 and -60 for the ratio 1/1000
Decibel(level, d) ==
    IF "db" \in DOMAIN level THEN level.db = d
    ELSE \/ d = 0 /\ level.log10x20.num = level.log10x20.den
         \/ d = 0 - 60 /\ level.log10x20.num * 1000 = level.log10x20.den

\* a raw level of 128 * 65536 is decoded as 0 dB and a raw level of 0 as the
\* number -60
LevelEnds(slot, level) ==
    /\ slot = 128 * 65536 => Decibel(level, 0)
    /\ slot = 0 => level = [db |-> 0 - 60]

\* where the levels of the input channels start in an AMLv payload
InputLevels(payload) == ((36 + 2 * Unsigned(payload, 0, 2) + 3) \div 4) * 4

\* the channels of an AMLv payload whose levels the field holds: the last
\* channel of each source
Held(payload) ==
    {i \in 1..Unsigned(payload, 0, 2) :
        \A j \in (i + 1)..Unsigned(payload, 0, 2) :
            Unsigned(payload, 36 + 2 * (j - 1), 2) # Unsigned(payload, 36 + 2 * (i - 1), 2)}

AudioMeterDecoded == pc = "decoded" /\ Val(fld).cls = "AudioMeterLevelsField"

\* C18: AudioMeterLevelsField decodes a raw level of 128*65536 as 0 dB and a
\* raw level of 0 as exactly -60 dB, in each of the four master slots, the
\* four monitor slots and the four slots of every input channel it holds.
AudioMeterLevelEnds ==
    AudioMeterDecoded =>
        /\ \A k \in 1..4 :
               /\ LevelEnds(Unsigned(wire, 4 * k, 4), Val(fld).master[k])
               /\ LevelEnds(Unsigned(wire, 16 + 4 * k, 4), Val(fld).monitor[k])
        /\ \A i \in Held(wire) : \A k \in 1..4 :
               LevelEnds(Unsigned(wire, InputLevels(wire) + 16 * (i - 1) + 4 * (k - 1), 4),
                         Val(fld).input[Unsigned(wire, 36 + 2 * (i - 1), 2)][k])

\* two input channels decoded, with a full-scale level seen as 0 dB and a
\* silent peak seen as -60 in the second one
AudioMeterLevelEndsWitness ==
    /\ AudioMeterDecoded
    /\ Val(fld).count = 2
    /\ Held(wire) = {1, 2}
    /\ Unsigned(wire, InputLevels(wire) + 16, 4) = 128 * 65536
    /\ Decibel(Val(fld).input[2][1], 0)
    /\ Unsigned(wire, InputLevels(wire) + 24, 4) = 0
    /\ Val(fld).input[2][3] = [db |-> 0 - 60]
    /\ Decibel(Val(fld).master[2], 0)

------------------------------------------------------------------------
\* Audio levels of the fairlight mixer.

FairlightDecoded ==
    /\ pc = "decoded"
    /\ Val(fld).cls \in {"FairlightMeterLevelsField", "FairlightMasterLevelsField"}

\* the decoded levels in the order of their slots in the payload
FairlightLevels(field) ==
    IF field.cls = "FairlightMeterLevelsField"
    THEN field.input \o <<field.expander_gr, field.compressor_gr, field.limiter_gr>>
             \o field.output \o field.level
    ELSE field.input \o <<field.compressor_gr, field.limiter_gr>>
             \o field.output \o field.level

\* the raw value of slot k of the payload
FairlightSlot(field, payload, k) ==
    Signed(payload,
           (IF field.cls = "FairlightMeterLevelsField" THEN 10 ELSE 0) + 2 * (k - 1), 2)

\* C19: FairlightMeterLevelsField and FairlightMasterLevelsField decode a raw
\* level of 0 as 0 dB and a raw level of -10000 as -60 dB in every level, peak
\* and gain-reduction slot, and each slot of either field holds what the curve
\* of the one and the curve of the other give for its raw value.
FairlightLevelEnds ==
    FairlightDecoded =>
        LET levels == FairlightLevels(Val(fld))
        IN /\ Len(levels) = IF Val(fld).cls = "FairlightMeterLevelsField" THEN 15 ELSE 14
           /\ \A k \in DOMAIN levels :
                  LET slot == FairlightSlot(Val(fld), wire, k)
                  IN /\ slot = 0 => levels[k] = [db |-> 0]
                     /\ slot = 0 - 10000 => levels[k] = [db |-> 0 - 60]
                     /\ levels[k] = FairlightMeterLevelsField_level(slot)
                     /\ levels[k] = FairlightMasterLevelsField_level(slot)

\* a master levels field with 0 dB in its first output slot, -60 dB in its
\* second and a level between the two in its third fader slot
FairlightLevelEndsWitness ==
    /\ FairlightDecoded
    /\ Val(fld).cls = "FairlightMasterLevelsField"
    /\ FairlightSlot(Val(fld), wire, 7) = 0
    /\ Val(fld).output[1] = [db |-> 0]
    /\ FairlightSlot(Val(fld), wire, 8) = 0 - 10000
    /\ Val(fld).output[2] = [db |-> 0 - 60]
    /\ Val(fld).level[3] = [curve |-> Ratio(5000, 10000), COEFF |-> 100]

------------------------------------------------------------------------
\* Camera control elements.

\* the rows of the static camera-control table: category, parameter, data
\* type, elements
CameraControlRows ==
    {<<0, 0, "fixed16", 1>>, <<0, 1, "-", 0>>, <<0, 2, "fixed16", 1>>,
     <<0, 3, "fixed16", 1>>, <<0, 4, "fixed16", 1>>, <<0, 5, "-", 0>>,
     <<0, 6, "boolean", 1>>, <<0, 7, "int16", 1>>, <<0, 8, "fixed16", 1>>,
     <<0, 9, "fixed16", 1>>,
     <<1, 0, "int8", 5>>, <<1, 1, "int8", 1>>, <<1, 2, "int16", 2>>,
     <<1, 3, "-", 0>>, <<1, 4, "-", 0>>, <<1, 5, "int32", 1>>,
     <<1, 6, "int16", 1>>, <<1, 7, "int8", 1>>, <<1, 8, "int8", 1>>,
     <<1, 9, "int16", 1>>, <<1, 10, "int8", 1>>, <<1, 11, "int32", 1>>,
     <<1, 12, "int32", 1>>, <<1, 13, "int8", 1>>, <<1, 14, "int32", 1>>,
     <<2, 0, "fixed16", 1>>, <<2, 1, "fixed16", 1>>, <<2, 2, "fixed16", 1>>,
     <<2, 3, "fixed16", 1>>, <<2, 4, "int8", 1>>, <<2, 5, "fixed16", 2>>,
     <<2, 6, "boolean", 1>>,
     <<3, 0, "uint16", 1>>, <<3, 1, "int8", 1>>, <<3, 2, "fixed16", 1>>,
     <<3, 3, "int8", 4>>,
     <<4, 0, "fixed16", 1>>, <<4, 1, "uint16", 1>>, <<4, 2, "fixed16", 1>>,
     <<4, 3, "fixed16", 1>>, <<4, 4, "int8", 1>>, <<4, 5, "int8", 2>>,
     <<5, 0, "fixed16", 1>>, <<5, 1, "fixed16", 1>>, <<5, 2, "fixed16", 1>>,
     <<6, 0, "int8", 1>>, <<6, 1, "int32", 1>>,
     <<7, 0, "int32", 2>>, <<7, 1, "utf8", 1>>, <<7, 2, "int32", 1>>,
     <<7, 3, "int64", 2>>,
     <<8, 0, "fixed16", 4>>, <<8, 1, "fixed16", 4>>, <<8, 2, "fixed16", 4>>,
     <<8, 3, "fixed16", 4>>, <<8, 4, "fixed16", 2>>, <<8, 5, "fixed16", 1>>,
     <<8, 6, "fixed16", 2>>, <<8, 7, "-", 0>>,
     <<10, 0, "int8", 2>>, <<10, 1, "int8", 4>>,
     <<11, 0, "fixed16", 2>>, <<11, 1, "int8", 2>>}

\* the table row of a command
CameraControlTable ==
    [cp \in {<<r[1], r[2]>> : r \in CameraControlRows} |->
        LET r == CHOOSE row \in CameraControlRows : <<row[1], row[2]>> = cp
        IN [datatype |-> r[3], elements |-> r[4]]]

\* the first get_command() of a camera-control command with fixed16 data has
\* returned a frame
Fixed16Encoded ==
    /\ pc = "built"
    /\ calls > 0
    /\ Val(ctor).cls = "CameraControlCommand"
    /\ Val(ctor).datatype = Some(128)
    /\ ~IsNone(Val(ctor).data)
    /\ first.kind = "bytes"

\* the 11 bytes behind the 5 header bytes of a CCmd payload
CountBytes(frame) == SubSeq(Payload(frame), 6, 16)

\* element k of a CCmd payload, read as a signed 16-bit integer
WireElement(frame, k) == Signed(Payload(frame), 16 + 2 * (k - 1), 2)

\* the count byte of the fixed16 datatype carries the number of elements and
\* element k is int(v * 2^11)
Fixed16Scaled ==
    Fixed16Encoded =>
        LET d == Val(Val(ctor).data)
        IN /\ CountBytes(first.val) =
                  [k \in 1..11 |-> IF k = countoffset[128] + 1 THEN Len(d) ELSE 0]
           /\ \A k \in DOMAIN d :
                  WireElement(first.val, k) = Trunc(d[k] * 2048, SubUnit)

\* the element count and the data type of the frame are those of the table
\* row of the command's category and parameter
TableRowUsed ==
    Fixed16Encoded =>
        LET cp == <<Val(ctor).category, Val(ctor).parameter>>
        IN cp \in DOMAIN CameraControlTable =>
               /\ CameraControlTable[cp].datatype = "fixed16"
               /\ CountBytes(first.val)[countoffset[128] + 1] =
                      CameraControlTable[cp].elements

\* C20: a fixed16 CameraControlCommand with k elements carries k in the
\* element-count byte, sends each element v as the signed 16-bit integer
\* int(v * 2^11), and uses the element count and pack format of the table
\* row of its category and parameter.
CameraControlFixed16 == Fixed16Scaled /\ TableRowUsed

------------------------------------------------------------------------
\* Reserved bytes of the fixed commands.

\* payload offsets the layout table of a fixed command marks as unknown
UnknownBytes == [
    CutCommand |-> {1, 2, 3},
    AutoCommand |-> {1, 2, 3},
    ProgramInputCommand |-> {1},
    PreviewInputCommand |-> {1},
    TransitionPositionCommand |-> {1},
    TransitionPreviewCommand |-> {2, 3},
    FadeToBlackCommand |-> {1, 2, 3},
    DkeyOnairCommand |-> {2, 3},
    DkeyTieCommand |-> {2, 3},
    DkeyAutoCommand |-> {1, 2, 3},
    DkeyRateCommand |-> {2, 3},
    DkeySetFillCommand |-> {1},
    DkeySetKeyCommand |-> {1},
    MixSettingsCommand |-> {2, 3},
    KeyOnAirCommand |-> {3},
    KeyerKeyframeSetCommand |-> {3},
    RecorderStatusCommand |-> {1, 2, 3},
    StreamingStatusSetCommand |-> {1, 2, 3},
    SendAudioLevelsCommand |-> {1, 2, 3},
    SendFairlightLevelsCommand |-> {1, 2, 3},
    VideoModeCommand |-> {2, 3},
    AutoInputVideoModeCommand |-> {1, 2, 3},
    LockCommand |-> {3},
    PartialLockCommand |-> {4, 5, 6, 7},
    TransferUploadRequestCommand |-> {4, 5, 14, 15} ]

FixedCommands == DOMAIN UnknownBytes

\* the unknown bytes of the frame of a fixed command are 0
UnknownAreZero(cls, frame) ==
    \A off \in UnknownBytes[cls] : Payload(frame)[off + 1] = 0

\* every fixed command but PLCK zero-fills its unknown bytes
UnknownAreZeroButPartialLock ==
    (Framed /\ Val(obj).cls \in FixedCommands \ {"PartialLockCommand"}) =>
        UnknownAreZero(Val(obj).cls, ret.val)

\* C21: every payload byte that the layout table of a fixed command marks as
\* unknown, reserved or padding is 0 in every frame the command encodes.
UnknownBytesZero ==
    (Framed /\ Val(obj).cls \in FixedCommands) =>
        UnknownAreZero(Val(obj).cls, ret.val)

------------------------------------------------------------------------
\* Decode, then re-encode.

\* the frame that carries a payload under a tag
Envelope(tag, payload) ==
    BigEndian(Len(payload) + 8, 2) \o <<0, 0>> \o tag \o payload

\* get_command() of the command rebuilt from a decoded field has returned
Reencoded ==
    /\ pc = "built"
    /\ calls > 0
    /\ ~IsNone(fld)
    /\ Val(fld).cls \in BothDirections
    /\ Val(ctor) = Rebuilt(Val(fld))

\* the payload holds nothing the command of its tag cannot carry: the data
\* of FTDa has the announced length, AiVM reports no detected mode
Canonical(field) ==
    CASE field.cls = "FileTransferDataField" -> Len(field.raw) = 4 + field.size
      [] field.cls = "AutoInputVideoModeField" -> field.detected = 0
      [] OTHER -> TRUE

\* the frame of the rebuilt command is the frame that carried the payload
SameFrame ==
    ret = Bytes(Envelope(CODE[Val(obj).cls], wire))

\* a canonical payload comes back byte for byte
CanonicalRoundTrip ==
    (Reencoded /\ Canonical(Val(fld))) => SameFrame

\* C22: for FTDa, AiVM and *XFC, the command rebuilt from the attributes of
\* a decoded field encodes to the frame that carried the decoded payload,
\* byte for byte.
DecodeEncodeIdentical == Reencoded => SameFrame

------------------------------------------------------------------------
\* The tag of the envelope.

\* _make_command has returned or raised
Made == pc = "made"

\* the bytes of the name given to _make_command
TagGiven == str_encode(Val(ctor).name)

\* a name of exactly 4 bytes is the tag of the frame
FourByteTagKept ==
    (Made /\ Len(TagGiven) = 4) =>
        ret = Bytes(Envelope(TagGiven, Val(ctor).data))

\* C23: envelope encoding fails for a tag that is not exactly 4 bytes long:
\* no frame is produced, and no tag is padded or truncated to 4 bytes.
TagLengthChecked ==
    Made =>
        /\ Len(TagGiven) # 4 => ret.kind = "raise"
        /\ ret.kind = "bytes" => SubSeq(ret.val, 5, 8) = TagGiven

------------------------------------------------------------------------
\* The two fields of the tag AMIP.

AMIPFields == {"AudioMixerInputPropertiesField", "AudioInputField"}

\* a field of the tag AMIP was decoded from a payload
AMIPDecoded == pc = "decoded" /\ Val(fld).cls \in AMIPFields

\* what a field of the tag AMIP holds: source index, mix option or state,
\* volume, balance
AMIPValues(field) ==
    IF field.cls = "AudioInputField"
    THEN <<field.index, field.state, field.volume, field.balance>>
    ELSE <<field.index, field.mix_option, field.volume, field.balance>>

\* the same four values at the offsets of the layout tables
AMIPDocumented(payload) ==
    <<Unsigned(payload, 0, 2), Unsigned(payload, 8, 1), Unsigned(payload, 10, 2),
      Signed(payload, 12, 2)>>

\* AudioInputField reads the documented offsets, and both fields read the
\* same source index
AudioInputFieldAsDocumented ==
    AMIPDecoded =>
        /\ Val(fld).cls = "AudioInputField" =>
               AMIPValues(Val(fld)) = AMIPDocumented(wire)
        /\ Val(fld).index = Unsigned(wire, 0, 2)
        /\ Val(fld).strip_id = <<Val(fld).index, 0>>

\* C25: AudioMixerInputPropertiesField and AudioInputField, which both
\* declare the tag AMIP, decode from every 16-byte payload the same source
\* index, mix option or state (byte 8), volume (bytes 10-11) and balance
\* (bytes 12-13), at the offsets both layout tables document.
AMIPUnambiguous ==
    AMIPDecoded =>
        /\ AMIPValues(AudioMixerInputPropertiesField_init(wire))
               = AMIPValues(AudioInputField_init(wire))
        /\ AMIPValues(Val(fld)) = AMIPDocumented(wire)

------------------------------------------------------------------------
\* The frame of a field.

\* the tag the docstring of a field class without CODE documents
DocumentedTag ==
    [FairlightHeadphonesField |-> <<70, 77, 72, 80>>,
     FairlightSoloField |-> <<70, 65, 77, 83>>]

\* make_packet() of a decoded field has returned or raised
Packed == pc = "packed"

\* the tag of the class of a field
TagOf(cls) == IF cls \in DOMAIN FieldCODE THEN FieldCODE[cls] ELSE DocumentedTag[cls]

\* the frame of a field of a class that sets CODE is the frame that carried it
PacketOfCoded ==
    (Packed /\ Val(fld).cls \in DOMAIN FieldCODE) =>
        /\ ret = Bytes(Envelope(FieldCODE[Val(fld).cls], wire))
        /\ Unsigned(ret.val, 0, 2) = Len(ret.val)

\* C26: for every Field class and every payload it decodes, make_packet()
\* returns u16 (len(raw)+8), two zero bytes, the tag of the class and the raw
\* payload unmodified, FairlightHeadphonesField and FairlightSoloField
\* included.
PacketIsFrame ==
    Packed => ret = Bytes(Envelope(TagOf(Val(fld).cls), wire))

------------------------------------------------------------------------
\* Unrecognized tags.

\* pair i of the stream has its result
Answered(i) == pc \in {"stream", "aborted"} /\ i \in 1..Len(inbox.results)

\* the result of pair i is the unknown result for a tag no class declares,
\* and a field of a class that declares the tag otherwise
ResultOf(i) ==
    LET pair == inbox.pairs[i]
        r == inbox.results[i]
    IN IF Dispatched(pair.tag) = {}
       THEN r = Unknown(pair.tag, pair.payload)
       ELSE ~IsRaise(r) /\ r.cls \in Dispatched(pair.tag) /\ r.raw = pair.payload

\* C24: in a stream of tag and payload pairs, a pair whose tag matches no
\* Field type yields an unknown result instead of an error, and every later
\* pair is still decoded: an unrecognized tag never ends the decoding.
UnknownTagTolerated ==
    /\ pc # "aborted"
    /\ \A i \in 1..MaxStream : Answered(i) => ResultOf(i)
    /\ pc = "stream" =>
           (Len(inbox.results) < Len(inbox.pairs) <=> ENABLED DecodePair)

\* the pair behind one with an unrecognized tag has been decoded into its
\* field
UnknownTagToleratedWitness ==
    /\ pc = "stream"
    /\ Len(inbox.pairs) = 2
    /\ Len(inbox.results) = 2
    /\ inbox.pairs[1].tag = <<122, 122, 122, 122>>
    /\ inbox.results[1].cls = "unknown"
    /\ inbox.results[2].cls = "VideoModeField"
    /\ inbox.results[2].mode = 5

------------------------------------------------------------------------
\* Keyframe run without run_to.

\* get_command() of a KeyerKeyframeRunCommand built without run_to, and with
\* every given argument in the range of its byte, has returned or raised
RunToOmitted ==
    /\ pc = "built"
    /\ calls > 0
    /\ Val(ctor).cls = "KeyerKeyframeRunCommand"
    /\ IsNone(Val(ctor).run_to)
    /\ InRange(Val(ctor))

\* with run_to A, B, Full or Infinite the keyframe byte is 1, 2, 3 or 4
RunToGivenEncoded ==
    (/\ pc = "built"
     /\ calls > 0
     /\ Val(ctor).cls = "KeyerKeyframeRunCommand"
     /\ ~IsNone(Val(ctor).run_to)
     /\ Val(Val(ctor).run_to) \in DOMAIN run_to_lut
     /\ InRange(Val(ctor))) =>
        /\ ret.kind = "bytes"
        /\ Payload(ret.val)[5] = run_to_lut[Val(Val(ctor).run_to)]

\* C27: a KeyerKeyframeRunCommand constructed with run_to omitted, with or
\* without set_infinite, encodes to an RFlK frame whose keyframe byte is 0
\* instead of failing at encode time.
RunToDefaultsToZero ==
    RunToOmitted =>
        /\ ret.kind = "bytes"
        /\ SubSeq(ret.val, 5, 8) = <<82, 70, 108, 75>>
        /\ Payload(ret.val)[5] = 0

------------------------------------------------------------------------
\* Mix option of CAMI.

\* get_command() of an AudioInputCommand with every argument in range has
\* returned
MixOptionEncoded ==
    /\ pc = "built"
    /\ calls > 0
    /\ Val(ctor).cls = "AudioInputCommand"
    /\ InRange(Val(ctor))

\* the mix option of the arguments: On when on is True, AFV when afv is True
\* and on is not, Off otherwise
MixOption(args) ==
    IF args.on = Some(1) THEN 1
    ELSE IF args.afv = Some(1) THEN 2
    ELSE 0

\* the mix-option byte is right whenever on and afv are not both supplied,
\* and the mask bit 0 is set iff one of them is supplied
MixOptionOfOne ==
    MixOptionEncoded =>
        /\ ret.kind = "bytes"
        /\ (IsNone(Val(ctor).on) \/ IsNone(Val(ctor).afv)) =>
               Payload(ret.val)[5] = MixOption(Val(ctor))
        /\ BitSet(Mask(ret.val, "AudioInputCommand"), 0)
               <=> (~IsNone(Val(ctor).on) \/ ~IsNone(Val(ctor).afv))

\* C28: AudioInputCommand encodes the mix-option byte as 1 when on=True, as
\* 2 when afv=True and on is not True, and as 0 otherwise; the byte is 0 with
\* mask bit 0 clear when neither on nor afv is supplied.
MixOptionByte ==
    MixOptionEncoded =>
        /\ ret.kind = "bytes"
        /\ Payload(ret.val)[5] = MixOption(Val(ctor))
        /\ (IsNone(Val(ctor).on) /\ IsNone(Val(ctor).afv)) =>
               ~BitSet(Mask(ret.val, "AudioInputCommand"), 0)

------------------------------------------------------------------------
\* Labels of video modes.

\* get_label() of a decoded VideoModeField has returned or raised
Labelled == pc = "labelled" /\ Val(fld).cls = "VideoModeField"

\* __repr__ of a decoded VideoModeCapabilityField has returned or raised
Listed == pc = "labelled" /\ Val(fld).cls = "VideoModeCapabilityField"

\* 'unknown [n]' for n of two digits
UnknownLabel(n) ==
    [kind |-> "str", exc |-> "",
     val |-> <<117, 110, 107, 110, 111, 119, 110, 32, 91,
               48 + (n \div 10), 48 + (n % 10), 93>>]

\* every video mode a capability entry holds: the mode, the multiview modes
\* and the downscale modes
ModesOf(entry) == <<entry.mode>> \o entry.multiview \o entry.downscale

\* a mode of the table answers with a text that begins with its resolution:
\* mode 0 is '525i59.94 4:3', mode 5 is '720p59.94', mode 27 is '1080p60'
KnownModeLabelled ==
    Labelled =>
        /\ Val(fld).mode = 0 =>
               ret.val = <<53, 50, 53, 105, 53, 57, 46, 57, 52, 32, 52, 58, 51>>
        /\ Val(fld).mode = 5 => ret.val = <<55, 50, 48, 112, 53, 57, 46, 57, 52>>
        /\ Val(fld).mode = 27 => ret.val = <<49, 48, 56, 48, 112, 54, 48>>
        /\ Val(fld).mode \in DOMAIN modes => ret.kind = "str"

\* C29: a VideoModeField of a mode number outside the mode table (28 to 255)
\* answers get_label() with 'unknown [n]' instead of failing, so that every
\* VideoModeCapabilityField, also one with a bit from 28 to 31 set in its
\* multiview or downscale bitfield, can list the labels of all its modes.
UnknownModeLabelled ==
    /\ (Labelled /\ Val(fld).mode \notin DOMAIN modes) =>
           ret = UnknownLabel(Val(fld).mode)
    /\ Listed =>
           /\ ret.kind = "str"
           /\ \A k \in DOMAIN Val(fld).modes :
                  LET all == ModesOf(Val(fld).modes[k])
                  IN \A j \in DOMAIN all :
                         VideoModeField_get_label(all[j]).kind = "str"

------------------------------------------------------------------------
\* Order of the legacy levels.

\* the decoded levels of the master and monitor slots, in payload order
MeterLevels(field) == field.master \o field.monitor

\* the raw u32 of master or monitor slot k
MeterRaw(payload, k) == Unsigned(payload, 4 * k, 4)

\* the level is not below -60 dB: 20 * log10(num / den) >= -60 iff
\* num * 1000 >= den
NotBelowFloor(level) ==
    IF "db" \in DOMAIN level THEN level.db >= 0 - 60
    ELSE level.log10x20.num >= (level.log10x20.den + 999) \div 1000

\* the level is not above -60 dB
NotAboveFloor(level) ==
    IF "db" \in DOMAIN level THEN level.db <= 0 - 60
    ELSE level.log10x20.num <= level.log10x20.den \div 1000

\* level x is not greater than level y
LevelLeq(x, y) ==
    CASE "db" \in DOMAIN x /\ "db" \in DOMAIN y -> x.db <= y.db
      [] "db" \in DOMAIN x /\ "db" \notin DOMAIN y -> x.db = 0 - 60 /\ NotBelowFloor(y)
      [] "db" \notin DOMAIN x /\ "db" \in DOMAIN y -> y.db = 0 - 60 /\ NotAboveFloor(x)
      [] OTHER -> /\ x.log10x20.den = y.log10x20.den
                  /\ x.log10x20.num <= y.log10x20.num

\* among the raw values above 0 the decoding is monotonic
MonotonicAboveZero ==
    AudioMeterDecoded =>
        \A j \in 1..8, k \in 1..8 :
            (0 < MeterRaw(wire, j) /\ MeterRaw(wire, j) <= MeterRaw(wire, k)) =>
                LevelLeq(MeterLevels(Val(fld))[j], MeterLevels(Val(fld))[k])

\* C30: the legacy AMLv level decode is monotonic and floored: for raw
\* values a <= b the level of a is not greater than the level of b, and no
\* raw value decodes to a level below -60 dB.
LevelMonotonicFloored ==
    AudioMeterDecoded =>
        /\ \A j \in 1..8, k \in 1..8 :
               MeterRaw(wire, j) <= MeterRaw(wire, k) =>
                   LevelLeq(MeterLevels(Val(fld))[j], MeterLevels(Val(fld))[k])
        /\ \A k \in 1..8 : NotBelowFloor(MeterLevels(Val(fld))[k])

====
